---- MODULE Spec2Model ----
(***************************************************************************)
(* Model of the signal-detection and admission pipeline of the DEX/CEX     *)
(* arbitrage bot (src/backend): the spread verifier, the CEX order         *)
(* placement guard and the orchestrator's scan cycle.                      *)
(*                                                                         *)
(* Numbers.  Prices are integers in thousandths of a dollar; liquidity and *)
(* volume are integers in dollars.  The spread is an exact rational        *)
(* <<numerator, denominator>> with a positive denominator, so that the     *)
(* comparisons against the thresholds are the comparisons of the code.     *)
(***************************************************************************)
EXTENDS Integers, Sequences, FiniteSets, TLC

VARIABLES
    live,       \* config.ALLOW_LIVE_TRADING, the global live-trading switch
    vIn,        \* arguments of the verify_signal call under test
    vOut,       \* what that call returned, with the switch value it ran under
    poIn,       \* arguments of the place_order call under test
    poOut,      \* what that call returned and whether a request was sent
    ad,         \* the adapter call under test, inside its retry wrapper
    et,         \* the execute_trade invocation under test
    ml,         \* main_loop under test: its clock and what the cycle has done
    fx,         \* the aggregate DEX fetch under test
    st,         \* the processes around trades.json: bot, dashboard, disk
    tg,         \* the Telegram polling thread and the update queue
    running,    \* TradingBot.running
    cycle,      \* number of the scan cycle of main_loop
    phase,      \* position of main_loop
    tasks,      \* the process_dex_pair coroutines of the current cycle
    batchLo,    \* index of the first task of the batch in progress
    cur,        \* the coroutine holding the event loop (0: none)
    stats,      \* TradingBot.stats counters
    trades,     \* TradingBot.trades
    tradesFile, \* contents of trades.json
    orders,     \* order requests the exchange received in this cycle
    signalLog   \* signal notifications sent in this cycle

vars == <<live, vIn, vOut, poIn, poOut, ad, et, ml, fx, st, tg, running, cycle, phase, tasks, batchLo,
          cur, stats, trades, tradesFile, orders, signalLog>>

unitVars == <<vIn, vOut, poIn, poOut, ad, et, ml, fx, st, tg>>
botVars  == <<running, cycle, phase, tasks, batchLo, cur, stats, trades,
              tradesFile, orders, signalLog>>

---------------------------------------------------------------------------
(* Configuration: config.py defaults.                                      *)

MIN_SPREAD_PERCENT == 2
MAX_SPREAD_PERCENT == 3
MIN_LIQUIDITY_USD == 10000
MIN_VOLUME_24H_USD == 50000

(* SignalVerification.__init__ copies the thresholds once.                 *)
min_spread == MIN_SPREAD_PERCENT
max_spread == MAX_SPREAD_PERCENT
min_liquidity == MIN_LIQUIDITY_USD
min_volume == MIN_VOLUME_24H_USD

---------------------------------------------------------------------------
(* Exact rational arithmetic for the float expressions of the code.        *)

Abs(x) == IF x < 0 THEN -x ELSE x

Rat(n) == <<n, 1>>

RatDiv(a, b) == IF b < 0 THEN <<-a, -b>> ELSE <<a, b>>

RatMul(r, k) == <<r[1] * k, r[2]>>

RatAbs(r) == <<Abs(r[1]), r[2]>>

RatLt(r, s) == r[1] * s[2] < s[1] * r[2]

RatEq(r, s) == r[1] * s[2] = s[1] * r[2]

---------------------------------------------------------------------------
(* utils.calculate_spread                                                  *)

calculate_spread_signed(dex_price, cex_price) ==
    IF cex_price = 0 THEN Rat(0)
    ELSE RatMul(RatDiv(dex_price - cex_price, cex_price), 100)

calculate_spread(dex_price, cex_price) ==
    IF cex_price = 0 THEN Rat(0)
    ELSE RatAbs(RatMul(RatDiv(dex_price - cex_price, cex_price), 100))

---------------------------------------------------------------------------
(* Values handed to verify_signal.                                         *)
(* dex_data is the dict built by DexClient.extract_pair_data: its numbers  *)
(* are floats (a missing key reads as 0).  xt_data is the raw ticker of    *)
(* the exchange: None, an empty dict, or a dict whose 'price' is missing   *)
(* (reads as 0), a number, or a value float() rejects.                     *)

NoneXt == [shape |-> "None", tag |-> "none", val |-> 0]
EmptyXt == [shape |-> "Empty", tag |-> "none", val |-> 0]
MissingPriceXt == [shape |-> "Dict", tag |-> "missing", val |-> 0]
BadPriceXt == [shape |-> "Dict", tag |-> "bad", val |-> 0]
NumXt(p) == [shape |-> "Dict", tag |-> "num", val |-> p]

Truthy(xt_data) == xt_data.shape = "Dict"

R_NotListed == "Token not listed on XT"
R_InvalidPrice == "Invalid price data"
R_TooLow == "Spread too low"
R_TooHigh == "Spread too high"
R_Liquidity == "Liquidity too low"
R_Volume == "Volume too low"
R_AllMet == "All criteria met"
R_Error == "Verification error"

(* The result dict as initialised at the top of verify_signal.             *)
InitialResult ==
    [valid |-> FALSE, action |-> "skip", reasons |-> <<>>,
     spread |-> Rat(0), dex_price |-> 0, cex_price |-> 0]

---------------------------------------------------------------------------
(* SignalVerification.verify_signal, check by check.                       *)

SpreadTooLow_le(spread) == ~RatLt(Rat(min_spread), spread)

SpreadTooLow(spread) == RatLt(spread, Rat(min_spread))

SpreadTooHigh(spread) == RatLt(Rat(max_spread), spread)

LiquidityTooLow(liquidity_usd) == liquidity_usd < min_liquidity

VolumeTooLow(volume_24h) == volume_24h < min_volume

PassAction_always(allow) == "execute"

PassAction(allow) == IF allow THEN "execute" ELSE "notify"

HighSpreadAction_execute(allow) == IF allow THEN "execute" ELSE "notify"

HighSpreadAction(allow) == "notify"

(* The part of verify_signal after the spread has been stored.             *)
verify_checks_liquidity_first(r, spread, liquidity_usd, volume_24h, allow) ==
    IF LiquidityTooLow(liquidity_usd)
    THEN [r EXCEPT !.reasons = Append(@, R_Liquidity)]
    ELSE IF VolumeTooLow(volume_24h)
    THEN [r EXCEPT !.reasons = Append(@, R_Volume)]
    ELSE IF SpreadTooLow(spread)
    THEN [r EXCEPT !.reasons = Append(@, R_TooLow)]
    ELSE IF SpreadTooHigh(spread)
    THEN [r EXCEPT !.reasons = Append(@, R_TooHigh),
                   !.action = HighSpreadAction(allow)]
    ELSE [r EXCEPT !.valid = TRUE, !.action = PassAction(allow),
                   !.reasons = Append(@, R_AllMet)]

verify_checks_all_reasons(r, spread, liquidity_usd, volume_24h, allow) ==
    LET r1 == IF SpreadTooLow(spread)
              THEN [r EXCEPT !.reasons = Append(@, R_TooLow)] ELSE r
        r2 == IF SpreadTooHigh(spread)
              THEN [r1 EXCEPT !.reasons = Append(@, R_TooHigh),
                              !.action = HighSpreadAction(allow)] ELSE r1
        r3 == IF LiquidityTooLow(liquidity_usd)
              THEN [r2 EXCEPT !.reasons = Append(@, R_Liquidity)] ELSE r2
        r4 == IF VolumeTooLow(volume_24h)
              THEN [r3 EXCEPT !.reasons = Append(@, R_Volume)] ELSE r3
    IN IF r4.reasons = <<>>
       THEN [r4 EXCEPT !.valid = TRUE, !.action = PassAction(allow),
                       !.reasons = Append(@, R_AllMet)]
       ELSE r4

verify_checks(r, spread, liquidity_usd, volume_24h, allow) ==
    IF SpreadTooLow(spread)
    THEN [r EXCEPT !.reasons = Append(@, R_TooLow)]
    ELSE IF SpreadTooHigh(spread)
    THEN [r EXCEPT !.reasons = Append(@, R_TooHigh),
                   !.action = HighSpreadAction(allow)]
    ELSE IF LiquidityTooLow(liquidity_usd)
    THEN [r EXCEPT !.reasons = Append(@, R_Liquidity)]
    ELSE IF VolumeTooLow(volume_24h)
    THEN [r EXCEPT !.reasons = Append(@, R_Volume)]
    ELSE [r EXCEPT !.valid = TRUE, !.action = PassAction(allow),
                   !.reasons = Append(@, R_AllMet)]

(* verify_signal(dex_data, xt_data) read under switch value `allow`.       *)
(* float(xt_data.get('price', 0)) raises on a value float() rejects; the   *)
(* except branch appends the error reason to the result built so far.      *)
verify_signal(dex_data, xt_data, allow) ==
    LET r0 == [InitialResult EXCEPT !.dex_price = dex_data.price_usd]
    IN IF ~Truthy(xt_data)
       THEN [r0 EXCEPT !.reasons = Append(@, R_NotListed)]
       ELSE IF xt_data.tag = "bad"
       THEN [r0 EXCEPT !.reasons = Append(@, R_Error)]
       ELSE LET cex_price == IF xt_data.tag = "num" THEN xt_data.val ELSE 0
                r1 == [r0 EXCEPT !.cex_price = cex_price]
            IN IF cex_price = 0 \/ dex_data.price_usd = 0
               THEN [r1 EXCEPT !.reasons = Append(@, R_InvalidPrice)]
               ELSE LET spread == calculate_spread(dex_data.price_usd, cex_price)
                    IN verify_checks([r1 EXCEPT !.spread = spread], spread,
                                     dex_data.liquidity, dex_data.volume_24h,
                                     allow)

should_execute_trade_switch_only(verification_result, allow) == allow

should_execute_trade_valid_only(verification_result, allow) ==
    verification_result.valid /\ allow

(* SignalVerification.should_execute_trade, read under switch `allow`.     *)
should_execute_trade(verification_result, allow) ==
    /\ verification_result.valid
    /\ verification_result.action = "execute"
    /\ allow

---------------------------------------------------------------------------
(* XTClient.place_order.  `response` is what the exchange does with the    *)
(* POST if it is sent: "ok" (rc 0, result with an orderId), "ok_noid"      *)
(* (rc 0, non-empty result without orderId), "ok_empty" (rc 0, result {}   *)
(* or missing), "rc_err" (non-zero rc), "fail" (transport error or HTTP    *)
(* error status, caught by the except branch).                             *)

Responses == {"ok", "ok_noid", "ok_empty", "rc_err", "fail"}

Accepted(response) == response \in {"ok", "ok_noid", "ok_empty"}

NoAck == [kind |-> "None", orderId |-> 0]
EmptyAck == [kind |-> "Empty", orderId |-> 0]
NoIdAck == [kind |-> "Dict", orderId |-> 0]
IdAck(id) == [kind |-> "Dict", orderId |-> id]

AckTruthy_any(order) == TRUE

AckTruthy(order) == order.kind = "Dict"

(* str.upper on the side and type strings the model uses.                 *)
Upper(s) ==
    CASE s = "buy" -> "BUY" [] s = "sell" -> "SELL"
      [] s = "market" -> "MARKET" [] s = "limit" -> "LIMIT" [] OTHER -> s

(* The body of the request: price and timeInForce only for a LIMIT order   *)
(* with a truthy price (0 stands for None).                                *)
order_params(symbol, side, order_type, quantity, price) ==
    [symbol |-> symbol, side |-> Upper(side), type |-> Upper(order_type),
     quantity |-> quantity,
     price |-> IF price # 0 /\ Upper(order_type) = "LIMIT" THEN price ELSE 0]

place_order_unguarded(symbol, side, order_type, quantity, price, allow, response, id) ==
    [sent |-> TRUE,
     params |-> order_params(symbol, side, order_type, quantity, price),
     ack |-> CASE response = "ok" -> IdAck(id)
               [] response = "ok_noid" -> NoIdAck
               [] response = "ok_empty" -> EmptyAck
               [] OTHER -> NoAck]

(* Returns the ack handed to the caller, whether a request reached the     *)
(* exchange, and the request.  `id` is the order id the exchange assigns.  *)
place_order(symbol, side, order_type, quantity, price, allow, response, id) ==
    IF ~allow
    THEN [sent |-> FALSE,
          params |-> order_params(symbol, side, order_type, quantity, price),
          ack |-> NoAck]
    ELSE [sent |-> TRUE,
          params |-> order_params(symbol, side, order_type, quantity, price),
          ack |-> CASE response = "ok" -> IdAck(id)
                    [] response = "ok_noid" -> NoIdAck
                    [] response = "ok_empty" -> EmptyAck
                    [] OTHER -> NoAck]

---------------------------------------------------------------------------
(* The adapter methods and the retry wrapper around them.                  *)
(*                                                                         *)
(* A reply is what the upstream does with one request: the transport       *)
(* fails ("timeout"), the HTTP status is an error ("status",               *)
(* raise_for_status raises), or a JSON body arrives ("ok") with a result   *)
(* code rc and a payload (the 'result' of the exchange, the 'pairs' of the *)
(* aggregator): missing, a dict, a list, or a value of another type (null, *)
(* a number).  The items of a payload are the quotes it holds.             *)

max_retries == 3

XtMethods ==
    {"get_symbols", "get_ticker", "get_orderbook", "get_balance", "place_order"}

DexMethods == {"get_token_info", "search_pairs"}

AdapterMethods == XtMethods \cup DexMethods

(* delay of the decorator: 1.0 on the XT client, 2.0 on the DEX client.    *)
retry_delay(method) == IF method \in DexMethods THEN 2 ELSE 1

Timeout == [http |-> "timeout", rc |-> 0, shape |-> "missing", items |-> <<>>]

BadStatus == [http |-> "status", rc |-> 0, shape |-> "missing", items |-> <<>>]

Body(rc, shape, items) ==
    [http |-> "ok", rc |-> rc, shape |-> shape, items |-> items]

Payloads ==
    {<<"missing", <<>>>>, <<"dict", <<>>>>, <<"dict", <<"q1">>>>,
     <<"list", <<>>>>, <<"list", <<"q1">>>>, <<"list", <<"q2", "q1">>>>,
     <<"other", <<>>>>}

Replies ==
    {Timeout, BadStatus}
        \cup {Body(rc, p[1], p[2]) : rc \in {0, 1}, p \in Payloads}

(* What the upstream would do with a second and a third request.           *)
LaterReplies == {Timeout, Body(0, "dict", <<"q1">>)}

(* Python values handed back by the adapters.                              *)
NoneV == [kind |-> "None", items |-> <<>>]

DictV(items) == [kind |-> "dict", items |-> items]

ListV(items) == [kind |-> "list", items |-> items]

OtherV == [kind |-> "other", items |-> <<>>]

(* data.get(key, default)                                                  *)
ResultOf(reply, default) ==
    CASE reply.shape = "missing" -> default
      [] reply.shape = "dict" -> DictV(reply.items)
      [] reply.shape = "list" -> ListV(reply.items)
      [] OTHER -> OtherV

(* session.get / session.post or raise_for_status raises.                  *)
Transport(reply) == reply.http # "ok"

RcOk_any(rc) == TRUE

(* data.get('rc') == 0                                                     *)
RcOk(rc) == rc = 0

(* len(v) is defined.                                                      *)
HasLen(v) == v.kind \in {"dict", "list"}

Returns(v) == [raised |-> FALSE, value |-> v]

Raises == [raised |-> TRUE, value |-> NoneV]

Caught_never(outcome, fallback) == outcome

(* try: ... except Exception: return fallback                              *)
Caught(outcome, fallback) ==
    IF outcome.raised THEN Returns(fallback) ELSE outcome

(* XTClient.get_symbols                                                    *)
get_symbols(reply) ==
    Caught(IF Transport(reply) THEN Raises
           ELSE IF RcOk(reply.rc)
           THEN LET symbols == ResultOf(reply, ListV(<<>>))
                IN IF HasLen(symbols) THEN Returns(symbols) ELSE Raises
           ELSE Returns(ListV(<<>>)),
           ListV(<<>>))

ticker_result_no_list(result) ==
    IF result.kind = "dict" THEN Returns(result) ELSE Returns(NoneV)

(* get_ticker, lines 68-82: the shape of the result decides.               *)
ticker_result(result) ==
    IF result.kind = "list"
    THEN IF Len(result.items) > 0
         THEN Returns(DictV(<<result.items[1]>>))
         ELSE Returns(NoneV)
    ELSE IF result.kind = "dict" THEN Returns(result)
    ELSE Returns(NoneV)

(* XTClient.get_ticker                                                     *)
get_ticker(reply) ==
    Caught(IF Transport(reply) THEN Raises
           ELSE IF RcOk(reply.rc)
           THEN ticker_result(ResultOf(reply, DictV(<<>>)))
           ELSE Returns(NoneV),
           NoneV)

(* XTClient.get_orderbook: the debug line reads result.get(...).           *)
get_orderbook(reply) ==
    Caught(IF Transport(reply) THEN Raises
           ELSE IF RcOk(reply.rc)
           THEN LET result == ResultOf(reply, DictV(<<>>))
                IN IF result.kind = "dict" THEN Returns(result) ELSE Raises
           ELSE Returns(NoneV),
           NoneV)

(* XTClient.get_balance                                                    *)
get_balance(reply) ==
    Caught(IF Transport(reply) THEN Raises
           ELSE IF RcOk(reply.rc)
           THEN Returns(ResultOf(reply, DictV(<<>>)))
           ELSE Returns(NoneV),
           NoneV)

(* The liquidity get_token_info sorts the pairs by.                        *)
PairLiquidity(q) == IF q = "q1" THEN 20000 ELSE 9999

(* sorted(pairs, key = liquidity, reverse = True)[0]                       *)
best_pair(items) ==
    items[CHOOSE k \in DOMAIN items :
            /\ \A j \in DOMAIN items :
                  PairLiquidity(items[j]) <= PairLiquidity(items[k])
            /\ \A j \in 1..(k - 1) :
                  PairLiquidity(items[j]) < PairLiquidity(items[k])]

(* DexClient.get_token_info: a dict of pairs cannot be sorted by           *)
(* liquidity (its keys are strings), a null has no length.                 *)
get_token_info(reply) ==
    Caught(IF Transport(reply) THEN Raises
           ELSE IF reply.shape = "missing" THEN Returns(NoneV)
           ELSE LET pairs == ResultOf(reply, NoneV)
                IN IF ~HasLen(pairs) THEN Raises
                   ELSE IF Len(pairs.items) = 0 THEN Returns(NoneV)
                   ELSE IF pairs.kind = "dict" THEN Raises
                   ELSE Returns(DictV(<<best_pair(pairs.items)>>)),
           NoneV)

(* DexClient.search_pairs                                                  *)
search_pairs(reply) ==
    Caught(IF Transport(reply) THEN Raises
           ELSE LET pairs == ResultOf(reply, ListV(<<>>))
                IN IF HasLen(pairs) THEN Returns(pairs) ELSE Raises,
           ListV(<<>>))

(* The reply to the POST of place_order in the terms of Responses.         *)
PlaceResponse(reply) ==
    IF Transport(reply) THEN "fail"
    ELSE IF ~RcOk(reply.rc) THEN "rc_err"
    ELSE IF reply.shape = "dict" /\ reply.items # <<>> THEN "ok"
    ELSE "ok_empty"

(* XTClient.place_order as the retry wrapper sees it: the POST or          *)
(* raise_for_status raises inside the try, the except branch logs the      *)
(* error and returns None; a non-zero result code is logged as well.       *)
place_order_outcome(symbol, side, quantity, reply, allow, id) ==
    LET order == place_order(symbol, side, "MARKET", quantity, 0,
                             allow, PlaceResponse(reply), id)
        outcome == Caught(IF order.sent /\ Transport(reply) THEN Raises
                          ELSE Returns(order.ack),
                          NoAck)
    IN [raised |-> outcome.raised, value |-> outcome.value,
        requests |-> IF order.sent THEN 1 ELSE 0,
        params |-> order.params,
        logs_error |-> order.sent /\ ~outcome.raised
                          /\ PlaceResponse(reply) \in {"fail", "rc_err"}]

(* One call of the decorated function: what it returns or raises, and the  *)
(* number of requests it sends.                                            *)
adapter_body(method, reply, allow) ==
    IF method = "place_order"
    THEN LET out == place_order_outcome("PEPE_USDT", "BUY", 100, reply,
                                        allow, 1)
         IN [raised |-> out.raised, value |-> out.value,
             requests |-> out.requests]
    ELSE LET outcome ==
                 CASE method = "get_symbols" -> get_symbols(reply)
                   [] method = "get_ticker" -> get_ticker(reply)
                   [] method = "get_orderbook" -> get_orderbook(reply)
                   [] method = "get_balance" -> get_balance(reply)
                   [] method = "get_token_info" -> get_token_info(reply)
                   [] method = "search_pairs" -> search_pairs(reply)
         IN [raised |-> outcome.raised, value |-> outcome.value,
             requests |-> 1]

(* utils.retry_on_failure, one iteration of `for attempt in                *)
(* range(max_retries)`: the value is returned, or the exception is kept,   *)
(* followed by time.sleep(delay * (attempt + 1)) or, after the last        *)
(* attempt, by `raise last_exception`.                                     *)
retry_step(call, out, delay) ==
    LET c1 == [call EXCEPT !.requests = @ + out.requests]
    IN IF ~out.raised
       THEN [c1 EXCEPT !.status = "returned", !.value = out.value]
       ELSE IF call.attempt < max_retries - 1
       THEN [c1 EXCEPT !.attempt = @ + 1,
                       !.sleeps = Append(@, delay * (call.attempt + 1))]
       ELSE [c1 EXCEPT !.attempt = @ + 1, !.status = "raised"]

IdleAdapter ==
    [method |-> "get_ticker", upstream |-> [i \in 1..max_retries |-> Timeout],
     attempt |-> 0, requests |-> 0, sleeps |-> <<>>, status |-> "idle",
     value |-> NoneV, allow |-> FALSE]

(* The execute_trade invocations under test: the prices of the signal and  *)
(* what the exchange would answer to each order request the wrapper allows.*)
MaxInvocations == 2

TradeSignals ==
    {[dex_price |-> 950, cex_price |-> 975],
     [dex_price |-> 1000, cex_price |-> 975]}

PlaceReplies ==
    {Timeout, BadStatus, Body(0, "dict", <<"q1">>), Body(0, "dict", <<>>),
     Body(0, "missing", <<>>), Body(1, "dict", <<"q1">>)}

PlaceUpstreams ==
    {u \in [1..max_retries -> PlaceReplies \cup LaterReplies] :
        /\ u[1] \in PlaceReplies
        /\ \A i \in 2..max_retries : u[i] \in LaterReplies}

IdleTrade ==
    [status |-> "idle", n |-> 0, symbol |-> "PEPE_USDT",
     signal |-> [dex_price |-> 0, cex_price |-> 0],
     call |-> [IdleAdapter EXCEPT !.method = "place_order"],
     events |-> <<>>, before |-> 0]

(* The calls under test: a method, and what the upstream would answer to   *)
(* each of the requests the wrapper allows.                                *)
AdapterCalls ==
    {[IdleAdapter EXCEPT !.method = m, !.upstream = u, !.status = "calling"] :
        m \in AdapterMethods,
        u \in {v \in [1..max_retries -> Replies] :
                 \A i \in 2..max_retries : v[i] \in LaterReplies}}

---------------------------------------------------------------------------
(* Input domains of the calls under test.                                  *)

DexPrices == {-975, 0, 975, 990, 1000, 1020, 1030}
CexPrices == {-1000, 0, 950, 975, 1000}
Liquidities == {0, 9999, 10000, 20000}
Volumes == {0, 49999, 50000, 100000}

DexInputs ==
    [price_usd : DexPrices, liquidity : Liquidities, volume_24h : Volumes]

XtInputs ==
    {NoneXt, EmptyXt, MissingPriceXt, BadPriceXt} \cup {NumXt(p) : p \in CexPrices}

NoResult == [called |-> FALSE]

IdleVerify == [dex |-> [price_usd |-> 0, liquidity |-> 0, volume_24h |-> 0],
               xt |-> NoneXt]

Symbols == {"PEPE_USDT", "SHIB_USDT"}
Sides == {"BUY", "SELL", "buy"}
OrderTypes == {"MARKET", "LIMIT", "limit"}
Quantities == {100}
LimitPrices == {0, 975}

PlaceInputs ==
    [symbol : Symbols, side : Sides, order_type : OrderTypes,
     quantity : Quantities, price : LimitPrices, response : Responses]

IdlePlace == [symbol |-> "PEPE_USDT", side |-> "BUY", order_type |-> "MARKET",
              quantity |-> 100, price |-> 0, response |-> "fail"]

---------------------------------------------------------------------------
(* Unit specifications: one call of verify_signal, resp. place_order, on   *)
(* every input of the domains above, with the command thread free to flip  *)
(* the switch before the call.                                             *)

(* TradingBot._callback_toggle_trading                                     *)
ToggleValue(allow) == ~allow

(* main_loop before it is entered.  elapsed is time.time() -               *)
(* stats['last_heartbeat'] in seconds, slept the length of the sleep that  *)
(* ended the last iteration, todo the batches the scan has yet to gather,  *)
(* done what the iteration in progress has completed; stop_at, stop_cycle  *)
(* and stop_todo tell where main_loop was when /stop was processed.        *)
IdleLoop ==
    [elapsed |-> 0, slept |-> 0, todo |-> 0, done |-> {}, polling |-> FALSE,
     raised |-> 0, reported |-> 0, stop_at |-> "none", stop_cycle |-> 0,
     stop_todo |-> 0, stop_sent |-> FALSE]

(* The aggregate fetch before it is called: the variant, what each of its  *)
(* search queries will meet, and whether a pair of an answer carries a     *)
(* pairAddress that cannot be hashed.                                      *)
IdleFetch ==
    [status |-> "idle", variant |-> "async",
     outcomes |-> [q \in 1..3 |-> [kind |-> "fail", pairs |-> <<>>]],
     malformed |-> FALSE,
     raised |-> FALSE, result |-> <<>>]

(* What a reader of trades.json has obtained.                              *)
NothingRead == [kind |-> "none", data |-> <<>>]

(* The bot process and trades.json before the first start: proc tells      *)
(* whether the process is up, w where save_to_json stands, disk the state  *)
(* of the file (tradesFile holding the records whose bytes are in it),     *)
(* read what get_trades of the dashboard returned last, boot what the last *)
(* start loaded, ever the records of the last list written completely.     *)
IdleStore ==
    [proc |-> "down", w |-> "none", disk |-> "missing", made |-> 0,
     starts |-> 0, read |-> NothingRead, boot |-> NothingRead,
     ever |-> <<>>]

MaxUpdates == 3

(* The polling thread before its first poll: offset is                     *)
(* TelegramAdmin.offset, server the ids of the updates Telegram holds,     *)
(* batch the updates of the poll being processed, dispatched how often     *)
(* each update went to a handler, raised the updates whose processing      *)
(* raised, polled_after the updates processed before the last poll that    *)
(* was answered.                                                           *)
IdlePoll ==
    [offset |-> 0, server |-> {}, batch |-> <<>>, next |-> 1,
     dispatched |-> [u \in 1..MaxUpdates |-> 0], handled |-> {},
     raised |-> {}, polled_after |-> {}]

UnitsIdle ==
    /\ ml = IdleLoop
    /\ fx = IdleFetch
    /\ st = IdleStore
    /\ tg = IdlePoll

BotIdle ==
    /\ running = FALSE
    /\ cycle = 0
    /\ phase = "init"
    /\ tasks = <<>>
    /\ batchLo = 1
    /\ cur = 0
    /\ stats = [signals_processed |-> 0, signals_valid |-> 0,
                trades_executed |-> 0, errors_count |-> 0]
    /\ trades = <<>>
    /\ tradesFile = <<>>
    /\ orders = <<>>
    /\ signalLog = <<>>

VerifyInit ==
    /\ live \in BOOLEAN
    /\ vIn \in [dex : DexInputs, xt : XtInputs]
    /\ vOut = NoResult
    /\ poIn = IdlePlace
    /\ poOut = NoResult
    /\ ad = IdleAdapter
    /\ et = IdleTrade
    /\ UnitsIdle
    /\ BotIdle

UnitToggle ==
    /\ vOut = NoResult
    /\ poOut = NoResult
    /\ ad.status \in {"idle", "calling"}
    /\ live' = ToggleValue(live)
    /\ UNCHANGED <<unitVars, botVars>>

CallVerify ==
    /\ vOut = NoResult
    /\ vOut' = [called |-> TRUE, allow |-> live,
                res |-> verify_signal(vIn.dex, vIn.xt, live)]
    /\ UNCHANGED <<live, vIn, poIn, poOut, ad, et, ml, fx, st, tg, botVars>>

VerifyNext == UnitToggle \/ CallVerify

SpecVerify == VerifyInit /\ [][VerifyNext]_vars

PlaceInit ==
    /\ live \in BOOLEAN
    /\ vIn = IdleVerify
    /\ vOut = NoResult
    /\ poIn \in PlaceInputs
    /\ poOut = NoResult
    /\ ad = IdleAdapter
    /\ et = IdleTrade
    /\ UnitsIdle
    /\ BotIdle

CallPlaceOrder ==
    /\ poOut = NoResult
    /\ poOut' = [called |-> TRUE, allow |-> live,
                 res |-> place_order(poIn.symbol, poIn.side, poIn.order_type,
                                     poIn.quantity, poIn.price, live,
                                     poIn.response, 1)]
    /\ UNCHANGED <<live, vIn, vOut, poIn, ad, et, ml, fx, st, tg, botVars>>

PlaceNext == UnitToggle \/ CallPlaceOrder

SpecPlaceOrder == PlaceInit /\ [][PlaceNext]_vars

(* The order acks of place_order are dicts.                                *)
AdapterInit ==
    /\ live \in BOOLEAN
    /\ vIn = IdleVerify
    /\ vOut = NoResult
    /\ poIn = IdlePlace
    /\ poOut = NoResult
    /\ ad \in {c \in AdapterCalls :
                 c.method = "place_order" =>
                    c.upstream[1].shape \in {"missing", "dict"}}
    /\ et = IdleTrade
    /\ UnitsIdle
    /\ BotIdle

(* One pass through the loop of the retry wrapper.                         *)
AdapterAttempt ==
    /\ ad.status = "calling"
    /\ ad' = [retry_step(ad,
                         adapter_body(ad.method, ad.upstream[ad.attempt + 1],
                                      live),
                         retry_delay(ad.method))
                EXCEPT !.allow = live]
    /\ UNCHANGED <<live, vIn, vOut, poIn, poOut, et, ml, fx, st, tg, botVars>>

AdapterNext == UnitToggle \/ AdapterAttempt

SpecAdapter == AdapterInit /\ [][AdapterNext]_vars

---------------------------------------------------------------------------
(* The orchestrator: TradingBot.main_loop, scan_dex_pairs,                 *)
(* process_dex_pair and execute_trade.                                     *)
(*                                                                         *)
(* The scan loop runs on one asyncio event loop: a coroutine keeps the     *)
(* loop until it awaits a network send (the Telegram notifications), the   *)
(* XT client calls being blocking.  The Telegram command handlers run on   *)
(* another thread and can change the switch and the running flag between   *)
(* any two steps.                                                          *)

MaxCycles == 1
MaxRaw == 3

(* scan_dex_pairs: batch_size = 20, scaled to the size of the model.       *)
batch_size == 2

(* The pairs the aggregator can return, as extract_pair_data builds them.  *)
(* 0xA and 0xB are pools of the same token on two chains; 0xC is a pool    *)
(* with little liquidity; 0xD carries no token symbol.                     *)
PairAddresses == {"0xA", "0xB", "0xC", "0xD"}

PairData(addr) ==
    CASE addr = "0xA" ->
           [pair_address |-> addr, chain |-> "ethereum",
            token |-> "0xpepe", symbol |-> "pepe",
            price_usd |-> 1000, liquidity |-> 20000, volume_24h |-> 100000]
      [] addr = "0xB" ->
           [pair_address |-> addr, chain |-> "bsc",
            token |-> "0xpepe2", symbol |-> "pepe",
            price_usd |-> 950, liquidity |-> 20000, volume_24h |-> 100000]
      [] addr = "0xC" ->
           [pair_address |-> addr, chain |-> "polygon",
            token |-> "0xshib", symbol |-> "SHIB",
            price_usd |-> 970, liquidity |-> 9999, volume_24h |-> 100000]
      [] addr = "0xD" ->
           [pair_address |-> addr, chain |-> "base",
            token |-> "0xnone", symbol |-> "",
            price_usd |-> 1000, liquidity |-> 20000, volume_24h |-> 100000]

(* get_latest_pairs_async queries the chains of its roster and             *)
(* concatenates the answers in roster order.                               *)
ChainRank(chain) ==
    CASE chain = "ethereum" -> 1 [] chain = "bsc" -> 2
      [] chain = "polygon" -> 3 [] chain = "base" -> 4

(* The removal of duplicates of get_latest_pairs_async.                    *)
RECURSIVE unique_pairs(_, _, _)
unique_pairs(all_pairs, seen, acc) ==
    IF all_pairs = <<>> THEN acc
    ELSE LET pair_addr == Head(all_pairs)
         IN IF pair_addr # "" /\ pair_addr \notin seen
            THEN unique_pairs(Tail(all_pairs), seen \cup {pair_addr},
                              Append(acc, pair_addr))
            ELSE unique_pairs(Tail(all_pairs), seen, acc)

(* What the chain queries of one scan return, concatenated: at most        *)
(* MaxRaw pairs, a pair possibly more than once (one per search term that  *)
(* finds it).                                                              *)
RawLists ==
    {raw \in UNION {[1..n -> PairAddresses] : n \in 1..MaxRaw} :
        \A i, j \in DOMAIN raw :
            i < j => ChainRank(PairData(raw[i]).chain)
                        <= ChainRank(PairData(raw[j]).chain)}

(* DexClient.get_latest_pairs_async: the chain answers concatenated and    *)
(* reduced to one pair per address; [] when the body raises.               *)
get_latest_pairs_async(answer) ==
    IF answer.raises THEN <<>> ELSE unique_pairs(answer.all_pairs, {}, <<>>)

(* DexClient.get_latest_pairs: the chain answers followed by the trending  *)
(* pairs, reduced to one pair per address; when the body raises (the       *)
(* duplicate removal meets a pairAddress that cannot be hashed) the except *)
(* branch returns the answer of a new trending query as it is.             *)
get_latest_pairs(answer) ==
    IF answer.raises THEN answer.trending
    ELSE unique_pairs(answer.all_pairs, {}, <<>>)

(* What _get_trending_pairs can return: the best pairs of each search      *)
(* term, one after the other, a pair possibly under several terms.         *)
TrendingLists == {<<>>} \cup {raw \in RawLists : Len(raw) <= 2}

AsyncAnswers ==
    {[raises |-> FALSE, all_pairs |-> raw] : raw \in RawLists \cup {<<>>}}
        \cup {[raises |-> TRUE, all_pairs |-> <<>>]}

SyncAnswers ==
    {[raises |-> FALSE, all_pairs |-> raw, trending |-> <<>>] :
        raw \in RawLists \cup {<<>>}}
        \cup {[raises |-> TRUE, all_pairs |-> <<>>, trending |-> t] :
                t \in TrendingLists}

(* The pair lists the two fetches can hand to scan_dex_pairs.              *)
AsyncResults == {get_latest_pairs_async(a) : a \in AsyncAnswers}

SyncResults == {get_latest_pairs(s) : s \in SyncAnswers}

(* _scan_specific_tokens: get_token_info is asked for each address of the  *)
(* fixed watchlist (SHIB, PEPE) and answers with the most liquid pair the  *)
(* token trades in, or None (written ""); every pair obtained is processed *)
(* at once.  0xA also stands for a pool both tokens trade in.              *)
watchlist_size == 2

WatchAnswers == [1..watchlist_size -> {"", "0xA", "0xC"}]

RECURSIVE watch_pairs(_, _)
watch_pairs(answers, i) ==
    IF i > watchlist_size THEN <<>>
    ELSE IF answers[i] = "" THEN watch_pairs(answers, i + 1)
    ELSE <<answers[i]>> \o watch_pairs(answers, i + 1)

(* The symbol catalog get_symbols can return: nothing (failure); a         *)
(* catalog with a usual symbol name, which contains no contract address,   *)
(* and a symbol name that contains the address of the SHIB token; or a     *)
(* catalog with an entry whose baseAsset is null instead of a string.      *)
Catalogs ==
    {<<>>,
     <<[symbol |-> "pepe_usdt", contains |-> {}, base |-> "str"],
       [symbol |-> "0xshib_usdt", contains |-> {"0xshib"}, base |-> "str"]>>,
     <<[symbol |-> "pepe_usdt", contains |-> {}, base |-> "null"],
       [symbol |-> "shib_usdt", contains |-> {}, base |-> "str"]>>}

NoSymbol == ""

(* XTClient.find_symbol_by_address: the first catalog symbol whose name    *)
(* contains the address.                                                   *)
find_symbol_by_address(address, symbols) ==
    IF \E k \in DOMAIN symbols : address \in symbols[k].contains
    THEN symbols[CHOOSE k \in DOMAIN symbols :
                    /\ address \in symbols[k].contains
                    /\ \A j \in 1..(k - 1) : address \notin symbols[j].contains
                ].symbol
    ELSE NoSymbol

(* find_symbol_by_address raises: symbol_data['baseAsset'].upper() meets   *)
(* a baseAsset that is not a string before the loop has returned.          *)
find_symbol_raises(address, symbols) ==
    \E k \in DOMAIN symbols :
        /\ symbols[k].base # "str"
        /\ \A j \in 1..(k - 1) : address \notin symbols[j].contains

(* f"{token_symbol.upper()}_USDT"                                          *)
UsdtSymbol(token_symbol) ==
    CASE token_symbol = "pepe" -> "PEPE_USDT"
      [] token_symbol = "SHIB" -> "SHIB_USDT"
      [] OTHER -> "_USDT"

(* process_dex_pair, lines 57-62.                                          *)
resolve_symbol(pair, symbols) ==
    LET xt_symbol == find_symbol_by_address(pair.token, symbols)
    IN IF xt_symbol = NoSymbol THEN UsdtSymbol(pair.symbol) ELSE xt_symbol

NoTicker_never(xt_ticker) == FALSE

(* process_dex_pair, line 68: if not xt_ticker.                            *)
NoTicker(xt_ticker) == ~Truthy(xt_ticker)

CountSignal_valid_only(counters, go) ==
    [counters EXCEPT !.signals_valid = IF go THEN @ + 1 ELSE @]

(* process_dex_pair, lines 76 and 94: the signal is counted, and counted   *)
(* as valid when it will be notified.                                      *)
CountSignal(counters, go) ==
    [counters EXCEPT !.signals_processed = @ + 1,
                     !.signals_valid = IF go THEN @ + 1 ELSE @]

(* What get_ticker can hand to process_dex_pair.                           *)
BotTickers == {NoneXt, NumXt(950), NumXt(975)}

Orderbooks == {"absent", "present"}

(* What the exchange can answer to an order of the orchestrator.           *)
BotResponses == {"ok", "ok_noid", "ok_empty", "rc_err", "fail"}

NoOrderbook_never(orderbook) == FALSE

(* execute_trade, line 120: if not orderbook.                              *)
NoOrderbook(orderbook) == orderbook = "absent"

ShouldNotify_always(verification) == TRUE

(* process_dex_pair, line 93.                                              *)
ShouldNotify(verification) ==
    verification.valid \/ verification.action = "notify"

trade_side_flipped(dex_price, cex_price) ==
    IF dex_price < cex_price THEN "SELL" ELSE "BUY"

(* execute_trade, line 131.                                                *)
trade_side(dex_price, cex_price) ==
    IF dex_price < cex_price THEN "BUY" ELSE "SELL"

trade_quantity == 100

NewTask(addr) ==
    [pair |-> addr, pc |-> "new", ret |-> FALSE, xt_symbol |-> NoSymbol,
     ticker |-> NoneXt, allow |-> FALSE, ver |-> InitialResult,
     book |-> "unfetched"]

(* A coroutine that has returned: its locals are gone, gather keeps the    *)
(* value it returned; book stays only as the mark of a trade given up for  *)
(* want of an order book.                                                  *)
Returned(task, value) ==
    [NewTask(task.pair) EXCEPT !.pc = "done", !.ret = value,
                               !.book = IF task.book = "absent" THEN "absent"
                                        ELSE "unfetched"]

(* A coroutine of a batch whose gather has returned: scan_dex_pairs has    *)
(* counted the results and keeps none of them.                             *)
Forgotten(task) == [NewTask(task.pair) EXCEPT !.pc = "done"]

(* The scan is processing pairs: in batches of a gather, or one watchlist  *)
(* pair after the other.                                                   *)
Scanning == phase \in {"batch", "watch"}

Width == IF phase = "watch" THEN 1 ELSE batch_size

BatchHi_unbounded == Len(tasks)

BatchHi == IF batchLo + Width - 1 < Len(tasks)
           THEN batchLo + Width - 1 ELSE Len(tasks)

InBatch(t) == t \in batchLo..BatchHi

Init ==
    /\ live \in BOOLEAN
    /\ vIn = IdleVerify
    /\ vOut = NoResult
    /\ poIn = IdlePlace
    /\ poOut = NoResult
    /\ ad = IdleAdapter
    /\ et = IdleTrade
    /\ UnitsIdle
    /\ BotIdle

(* main_loop up to the first evaluation of the loop condition.             *)
MainStart ==
    /\ phase = "init"
    /\ running' = TRUE
    /\ phase' = "loop"
    /\ UNCHANGED <<live, unitVars, cycle, tasks, batchLo, cur, stats, trades,
                   tradesFile, orders, signalLog>>

NoPairs_short(pairs) == Len(pairs) <= 1

(* scan_dex_pairs, lines 177 and 183: not pairs.                           *)
NoPairs(pairs) == pairs = <<>>

(* while self.running: scan_dex_pairs, lines 175-181, obtains the pairs:   *)
(* the concurrent fetch and, if it is empty, the synchronous one.  tasks   *)
(* holds the pairs obtained; orders and signalLog record the cycle in      *)
(* progress.                                                               *)
ScanStart ==
    /\ phase = "loop"
    /\ running
    /\ cycle < MaxCycles
    /\ \E pairs \in AsyncResults :
          IF ~NoPairs(pairs)
          THEN tasks' = [i \in 1..Len(pairs) |-> NewTask(pairs[i])]
          ELSE \E pairs2 \in SyncResults :
                 tasks' = [i \in 1..Len(pairs2) |-> NewTask(pairs2[i])]
    /\ phase' = "fetched"
    /\ cycle' = cycle + 1
    /\ batchLo' = 1
    /\ cur' = 0
    /\ orders' = <<>>
    /\ signalLog' = <<>>
    /\ UNCHANGED <<live, unitVars, running, stats, trades, tradesFile>>

(* scan_dex_pairs, lines 183-207: without pairs the watchlist is scanned   *)
(* and the scan returns; with pairs the coroutines of the first batch are  *)
(* built.                                                                  *)
ScanRoute ==
    /\ phase = "fetched"
    /\ IF NoPairs(tasks)
       THEN \E w \in WatchAnswers :
              LET pairs3 == watch_pairs(w, 1)
              IN /\ tasks' = [i \in 1..Len(pairs3) |-> NewTask(pairs3[i])]
                 /\ phase' = IF pairs3 = <<>> THEN "loop" ELSE "watch"
       ELSE /\ phase' = "batch"
            /\ UNCHANGED tasks
    /\ UNCHANGED <<live, unitVars, running, cycle, batchLo, cur, stats, trades,
                   tradesFile, orders, signalLog>>

(* process_dex_pair, lines 47-74: the symbol, the ticker and the           *)
(* verification; lines 106-108 when find_symbol_by_address raises.  The    *)
(* coroutines of a gather start in list order.                             *)
PD_StartWith(t, symbols, xt_ticker) ==
    /\ Scanning
    /\ cur = 0
    /\ InBatch(t)
    /\ tasks[t].pc = "new"
    /\ \A u \in batchLo..(t - 1) : tasks[u].pc # "new"
    /\ LET pair == PairData(tasks[t].pair)
       IN IF pair.token = "" \/ pair.symbol = ""
          THEN /\ tasks' = [tasks EXCEPT ![t] = Returned(@, FALSE)]
               /\ cur' = 0
               /\ UNCHANGED stats
          ELSE IF find_symbol_raises(pair.token, symbols)
          THEN /\ tasks' = [tasks EXCEPT ![t] = Returned(@, FALSE)]
               /\ cur' = 0
               /\ UNCHANGED stats
          ELSE LET xt_symbol == resolve_symbol(pair, symbols)
               IN IF NoTicker(xt_ticker)
                  THEN /\ tasks' = [tasks EXCEPT ![t] = Returned(@, FALSE)]
                       /\ cur' = 0
                       /\ stats' = [stats EXCEPT !.signals_processed = @ + 1]
                  ELSE /\ tasks' = [tasks EXCEPT ![t] =
                              [@ EXCEPT !.pc = "verified",
                                        !.xt_symbol = xt_symbol,
                                        !.ticker = xt_ticker,
                                        !.allow = live,
                                        !.ver = verify_signal(pair, xt_ticker, live)]]
                       /\ cur' = t
                       /\ UNCHANGED stats
    /\ UNCHANGED <<live, unitVars, running, cycle, phase, batchLo, trades,
                   tradesFile, orders, signalLog>>

(* get_symbols and get_ticker answer in one of the ways of Catalogs and    *)
(* BotTickers.                                                             *)
PD_Start(t) ==
    /\ cur = 0
    /\ tasks[t].pc = "new"
    /\ \E symbols \in Catalogs, xt_ticker \in BotTickers :
          PD_StartWith(t, symbols, xt_ticker)

(* process_dex_pair, lines 76-96: the counters and the decision to notify, *)
(* up to the await of the signal notification (or to the return).          *)
PD_Decide(t) ==
    /\ Scanning
    /\ cur = t
    /\ tasks[t].pc = "verified"
    /\ LET go == ShouldNotify(tasks[t].ver)
       IN /\ tasks' = [tasks EXCEPT ![t] =
                IF go THEN [@ EXCEPT !.pc = "await_signal"]
                ELSE Returned(@, FALSE)]
          /\ stats' = CountSignal(stats, go)
    /\ cur' = 0
    /\ UNCHANGED <<live, unitVars, running, cycle, phase, batchLo, trades,
                   tradesFile, orders, signalLog>>

(* What the logs keep of the verification a notification or an order       *)
(* stems from.                                                             *)
Origin(task) ==
    [pair |-> task.pair, valid |-> task.ver.valid, action |-> task.ver.action,
     reason |-> task.ver.reasons[1]]

(* The signal notification has been sent; should_execute_trade decides     *)
(* whether execute_trade is entered.                                       *)
PD_SignalSent(t) ==
    /\ Scanning
    /\ cur = 0
    /\ InBatch(t)
    /\ tasks[t].pc = "await_signal"
    /\ signalLog' = Append(signalLog, Origin(tasks[t]))
    /\ IF should_execute_trade(tasks[t].ver, live)
       THEN /\ tasks' = [tasks EXCEPT ![t].pc = "et_begin"]
            /\ cur' = t
       ELSE /\ tasks' = [tasks EXCEPT ![t] = Returned(@, TRUE)]
            /\ cur' = 0
    /\ UNCHANGED <<live, unitVars, running, cycle, phase, batchLo, stats,
                   trades, tradesFile, orders>>

(* execute_trade, lines 113-122: the switch, then the order book.  A flip  *)
(* of the switch while get_orderbook is under way is a flip before         *)
(* ET_Place.                                                               *)
ET_Begin(t) ==
    /\ Scanning
    /\ cur = t
    /\ tasks[t].pc = "et_begin"
    /\ IF ~live
       THEN /\ tasks' = [tasks EXCEPT ![t] = Returned(@, TRUE)]
            /\ cur' = 0
       ELSE \E orderbook \in Orderbooks :
              IF NoOrderbook(orderbook)
              THEN /\ tasks' = [tasks EXCEPT ![t] =
                          Returned([@ EXCEPT !.book = orderbook], TRUE)]
                   /\ cur' = 0
              ELSE /\ tasks' = [tasks EXCEPT ![t].pc = "et_place",
                                            ![t].book = orderbook]
                   /\ cur' = t
    /\ UNCHANGED <<live, unitVars, running, cycle, phase, batchLo, stats,
                   trades, tradesFile, orders, signalLog>>

Blocking_awaited(t) == 0

(* The holder of the event loop after coroutine t has called place_order:  *)
(* the call is a plain blocking call, not an await, so t keeps the loop.   *)
Blocking(t) == t

(* execute_trade, lines 126-139, and place_order, line 140: the side, the  *)
(* call of place_order and its test of the switch.                         *)
ET_Place(t) ==
    /\ Scanning
    /\ cur = t
    /\ tasks[t].pc = "et_place"
    /\ LET symbol == tasks[t].xt_symbol
           side == trade_side(tasks[t].ver.dex_price, tasks[t].ver.cex_price)
           order == place_order(symbol, side, "MARKET", trade_quantity, 0,
                                live, "fail", 0)
       IN IF order.sent
          THEN /\ tasks' = [tasks EXCEPT ![t].pc = "et_post"]
               /\ cur' = Blocking(t)
          ELSE /\ tasks' = [tasks EXCEPT ![t] = Returned(@, TRUE)]
               /\ cur' = 0
    /\ UNCHANGED <<live, unitVars, running, cycle, phase, batchLo, stats,
                   trades, tradesFile, orders, signalLog>>

(* place_order, lines 144-173, the switch having been read as on: the      *)
(* request is built, signed and posted; then execute_trade, lines 141-157: *)
(* on a truthy ack the counter, the trade record and trades.json, up to    *)
(* the await of the trade notification.  The order id the exchange hands   *)
(* out is new: one more than the number of records.                        *)
ET_PostWith(t, response) ==
    /\ Scanning
    /\ cur = t
    /\ tasks[t].pc = "et_post"
    /\   LET symbol == tasks[t].xt_symbol
              side == trade_side(tasks[t].ver.dex_price, tasks[t].ver.cex_price)
              order == place_order(symbol, side, "MARKET", trade_quantity, 0,
                                   TRUE, response,
                                   Len(trades) + 1)
          IN /\ orders' = IF order.sent
                          THEN Append(orders,
                                      [symbol |-> order.params.symbol,
                                       side |-> order.params.side,
                                       recorded |-> AckTruthy(order.ack),
                                       book |-> tasks[t].book,
                                       origin |-> Origin(tasks[t])])
                          ELSE orders
             /\ IF AckTruthy(order.ack)
                THEN /\ stats' = [stats EXCEPT !.trades_executed = @ + 1]
                     /\ trades' = Append(trades,
                                         [timestamp |-> cycle,
                                          symbol |-> symbol, side |-> side,
                                          quantity |-> trade_quantity,
                                          order_id |-> order.ack.orderId])
                     /\ tradesFile' = trades'
                     /\ tasks' = [tasks EXCEPT ![t].pc = "await_trade"]
                ELSE /\ tasks' = [tasks EXCEPT ![t] = Returned(@, TRUE)]
                     /\ UNCHANGED <<stats, trades, tradesFile>>
    /\ cur' = 0
    /\ UNCHANGED <<live, unitVars, running, cycle, phase, batchLo, signalLog>>

(* The exchange answers the order in one of the ways of BotResponses.      *)
ET_Post(t) ==
    /\ cur = t
    /\ tasks[t].pc = "et_post"
    /\ \E response \in BotResponses : ET_PostWith(t, response)

(* The trade notification has been sent; execute_trade and                 *)
(* process_dex_pair return.                                                *)
ET_TradeNotified(t) ==
    /\ Scanning
    /\ cur = 0
    /\ InBatch(t)
    /\ tasks[t].pc = "await_trade"
    /\ tasks' = [tasks EXCEPT ![t] = Returned(@, TRUE)]
    /\ UNCHANGED <<live, unitVars, running, cycle, phase, batchLo, cur, stats,
                   trades, tradesFile, orders, signalLog>>

(* asyncio.gather (or the await of a watchlist pair) has returned: the     *)
(* next batch, or the end of the scan, where the coroutines and the        *)
(* results gather collected are dropped.                                   *)
BatchEnd ==
    /\ Scanning
    /\ cur = 0
    /\ \A t \in batchLo..BatchHi : tasks[t].pc = "done"
    /\ IF batchLo + Width <= Len(tasks)
       THEN /\ batchLo' = batchLo + Width
            /\ phase' = phase
            /\ tasks' = IF phase = "batch"
                        THEN [t \in DOMAIN tasks |->
                                 IF t <= BatchHi THEN Forgotten(tasks[t])
                                 ELSE tasks[t]]
                        ELSE tasks
       ELSE /\ batchLo' = 1
            /\ phase' = "loop"
            /\ tasks' = <<>>
    /\ UNCHANGED <<live, unitVars, running, cycle, cur, stats, trades,
                   tradesFile, orders, signalLog>>

(* The loop condition is false: cleanup.                                   *)
MainStop ==
    /\ phase = "loop"
    /\ ~running
    /\ phase' = "stopped"
    /\ UNCHANGED <<live, unitVars, running, cycle, tasks, batchLo, cur, stats,
                   trades, tradesFile, orders, signalLog>>

(* Command thread: the toggle_trading button.                              *)
ToggleTrading ==
    /\ phase \in {"loop", "fetched", "batch", "watch"}
    /\ live' = ToggleValue(live)
    /\ UNCHANGED <<unitVars, botVars>>

(* Command thread: /stop.                                                  *)
CmdStop ==
    /\ phase \in {"loop", "fetched", "batch", "watch"}
    /\ running
    /\ running' = FALSE
    /\ UNCHANGED <<live, unitVars, cycle, phase, tasks, batchLo, cur, stats,
                   trades, tradesFile, orders, signalLog>>

Next ==
    \/ MainStart
    \/ ScanStart
    \/ ScanRoute
    \/ \E t \in DOMAIN tasks : PD_Start(t)
    \/ \E t \in DOMAIN tasks : PD_Decide(t)
    \/ \E t \in DOMAIN tasks : PD_SignalSent(t)
    \/ \E t \in DOMAIN tasks : ET_Begin(t)
    \/ \E t \in DOMAIN tasks : ET_Place(t)
    \/ \E t \in DOMAIN tasks : ET_Post(t)
    \/ \E t \in DOMAIN tasks : ET_TradeNotified(t)
    \/ BatchEnd
    \/ MainStop
    \/ ToggleTrading
    \/ CmdStop

Spec == Init /\ [][Next]_vars

---------------------------------------------------------------------------
(* execute_trade on its own: invocations one after the other, each step by *)
(* step, with the retry wrapper around place_order, the write of           *)
(* trades.json and the notification.  events lists what the invocation has *)
(* done; orders holds the requests the exchange received from it.          *)

(* utils.save_to_json: the file holds the data when the write succeeds; an *)
(* exception of open or json.dump is logged and the file stays behind.     *)
save_to_json(data, file, written) == IF written THEN data ELSE file

tradeRest == <<vIn, vOut, poIn, poOut, ad, ml, fx, st, tg, running, cycle, phase, tasks,
               batchLo, cur, signalLog>>

TradeInit ==
    /\ live \in BOOLEAN
    /\ vIn = IdleVerify
    /\ vOut = NoResult
    /\ poIn = IdlePlace
    /\ poOut = NoResult
    /\ ad = IdleAdapter
    /\ et = IdleTrade
    /\ UnitsIdle
    /\ BotIdle

(* process_dex_pair calls execute_trade(symbol, signal_data).              *)
TradeCall ==
    /\ et.status \in {"idle", "returned"}
    /\ et.n < MaxInvocations
    /\ \E signal \in TradeSignals, u \in PlaceUpstreams :
          et' = [IdleTrade EXCEPT !.status = "begin", !.n = et.n + 1,
                                  !.signal = signal, !.call.upstream = u,
                                  !.before = Len(trades)]
    /\ orders' = <<>>
    /\ UNCHANGED <<live, tradeRest, stats, trades, tradesFile>>

(* execute_trade, lines 113-122: the switch, then the order book.          *)
TradeBegin ==
    /\ et.status = "begin"
    /\ IF ~live
       THEN et' = [et EXCEPT !.status = "returned"]
       ELSE \E orderbook \in Orderbooks :
              IF NoOrderbook(orderbook)
              THEN et' = [et EXCEPT !.status = "returned"]
              ELSE et' = [et EXCEPT !.status = "placing",
                                    !.call.status = "calling"]
    /\ UNCHANGED <<live, tradeRest, stats, trades, tradesFile, orders>>

(* execute_trade, lines 126-139: one pass through the loop of the retry    *)
(* wrapper around place_order; lines 167-169 when the wrapper raises.      *)
TradeAttempt ==
    /\ et.status = "placing"
    /\ et.call.status = "calling"
    /\ LET side == trade_side(et.signal.dex_price, et.signal.cex_price)
           out == place_order_outcome(et.symbol, side, trade_quantity,
                                      et.call.upstream[et.call.attempt + 1],
                                      live, Len(trades) + 1)
           call == [retry_step(et.call, out, retry_delay("place_order"))
                       EXCEPT !.allow = live]
           logged == IF out.logs_error
                     THEN Append(et.events, "order_error_logged")
                     ELSE et.events
       IN /\ et' = [et EXCEPT
                      !.call = call,
                      !.status = CASE call.status = "returned" -> "ack"
                                   [] call.status = "raised" -> "returned"
                                   [] OTHER -> "placing",
                      !.events = IF call.status = "raised"
                                 THEN Append(logged, "error_notification")
                                 ELSE logged]
          /\ orders' = IF out.requests = 1
                       THEN Append(orders, out.params)
                       ELSE orders
    /\ UNCHANGED <<live, tradeRest, stats, trades, tradesFile>>

(* execute_trade, lines 141-154: on a truthy ack the counter, the record   *)
(* and the write of trades.json.                                           *)
TradeRecord ==
    /\ et.status = "ack"
    /\ IF AckTruthy(et.call.value)
       THEN \E written \in BOOLEAN :
              LET side == trade_side(et.signal.dex_price, et.signal.cex_price)
              IN /\ stats' = [stats EXCEPT !.trades_executed = @ + 1]
                 /\ trades' = Append(trades,
                                     [timestamp |-> et.n,
                                      symbol |-> et.symbol, side |-> side,
                                      quantity |-> trade_quantity,
                                      order_id |-> et.call.value.orderId])
                 /\ tradesFile' = save_to_json(trades', tradesFile, written)
                 /\ et' = [et EXCEPT
                             !.status = "notifying",
                             !.events = @ \o <<"counter", "record", "save">>]
       ELSE /\ et' = [et EXCEPT !.status = "returned"]
            /\ UNCHANGED <<stats, trades, tradesFile>>
    /\ UNCHANGED <<live, tradeRest, orders>>

(* execute_trade, lines 157-165: the trade notification, then the return.  *)
TradeNotified ==
    /\ et.status = "notifying"
    /\ et' = [et EXCEPT !.status = "returned",
                        !.events = Append(@, "trade_notification")]
    /\ UNCHANGED <<live, tradeRest, stats, trades, tradesFile, orders>>

(* The command thread flips the switch at any moment.                      *)
TradeToggle ==
    /\ et.status # "idle"
    /\ live' = ToggleValue(live)
    /\ UNCHANGED <<unitVars, botVars>>

TradeNext ==
    \/ TradeCall
    \/ TradeBegin
    \/ TradeAttempt
    \/ TradeRecord
    \/ TradeNotified
    \/ TradeToggle

SpecTrade == TradeInit /\ [][TradeNext]_vars

---------------------------------------------------------------------------
(* main_loop on its own: the iterations of the loop with the scan reduced  *)
(* to its batches, the heartbeat, the stats snapshot, the two sleeps, the  *)
(* except branch and the cleanup.  Time is counted in seconds.             *)

MaxIterations == 2

(* The batches of one scan, and how long the gather of a batch can take.   *)
MaxBatches == 2

BatchDurations == {1, 20}

(* main_loop, line 451.                                                    *)
scan_interval == 5

error_sleep_short == scan_interval

(* main_loop, line 479: asyncio.sleep(30).                                 *)
error_sleep == 30

(* config.HEARTBEAT_INTERVAL                                               *)
HEARTBEAT_INTERVAL == 30

LoopCondition_always(flag) == TRUE

(* main_loop, line 453: while self.running.                                *)
LoopCondition(flag) == flag

ReadsFlag_anywhere(at) == at \notin {"init", "cleanup", "stopped"}

(* The position of main_loop at which self.running is read.                *)
ReadsFlag(at) == at = "loop"

(* The positions inside the try of the loop body.                          *)
InTry == {"scan", "heartbeat", "save", "sleep"}

(* main_loop, line 462.                                                    *)
HeartbeatDue(elapsed) == elapsed > HEARTBEAT_INTERVAL

loopRest == <<live, vIn, vOut, poIn, poOut, ad, et, fx, st, tg, tasks,
              batchLo, cur, trades, tradesFile, orders, signalLog>>

LoopInit ==
    /\ live \in BOOLEAN
    /\ vIn = IdleVerify
    /\ vOut = NoResult
    /\ poIn = IdlePlace
    /\ poOut = NoResult
    /\ ad = IdleAdapter
    /\ et = IdleTrade
    /\ UnitsIdle
    /\ BotIdle

(* main_loop, lines 435-449: the flag, start_polling, the startup message. *)
LoopEnter ==
    /\ phase = "init"
    /\ running' = TRUE
    /\ ml' = [ml EXCEPT !.polling = TRUE]
    /\ phase' = "loop"
    /\ UNCHANGED <<loopRest, cycle, stats>>

(* The loop condition holds: scan_dex_pairs is entered and finds the pairs *)
(* of some number of batches.                                              *)
LoopScan ==
    /\ ReadsFlag(phase)
    /\ phase = "loop"
    /\ LoopCondition(running)
    /\ cycle < MaxIterations
    /\ \E n \in 0..MaxBatches :
          ml' = [ml EXCEPT !.todo = n, !.done = {}]
    /\ cycle' = cycle + 1
    /\ phase' = "scan"
    /\ UNCHANGED <<loopRest, running, stats>>

(* scan_dex_pairs, line 211: the gather of the batch in progress returns.  *)
LoopBatch ==
    /\ phase = "scan"
    /\ ml.todo > 0
    /\ \E d \in BatchDurations :
          ml' = [ml EXCEPT !.todo = @ - 1, !.elapsed = @ + d]
    /\ UNCHANGED <<loopRest, running, cycle, phase, stats>>

(* scan_dex_pairs returns.                                                 *)
LoopScanned ==
    /\ phase = "scan"
    /\ ml.todo = 0
    /\ ml' = [ml EXCEPT !.done = @ \cup {"scan"}]
    /\ phase' = "heartbeat"
    /\ UNCHANGED <<loopRest, running, cycle, stats>>

(* main_loop, lines 462-463, and send_heartbeat: the message is sent and   *)
(* last_heartbeat is set to the time of the moment.                        *)
LoopHeartbeat ==
    /\ phase = "heartbeat"
    /\ ml' = IF HeartbeatDue(ml.elapsed)
              THEN [ml EXCEPT !.elapsed = 0, !.done = @ \cup {"heartbeat"}]
              ELSE ml
    /\ phase' = "save"
    /\ UNCHANGED <<loopRest, running, cycle, stats>>

(* main_loop, line 466: save_to_json(self.stats, 'bot_stats.json').        *)
LoopSave ==
    /\ phase = "save"
    /\ ml' = [ml EXCEPT !.done = @ \cup {"save"}]
    /\ phase' = "sleep"
    /\ UNCHANGED <<loopRest, running, cycle, stats>>

(* main_loop, line 469: asyncio.sleep(scan_interval) returns.              *)
LoopSleep ==
    /\ phase = "sleep"
    /\ ml' = [ml EXCEPT !.done = @ \cup {"sleep"},
                        !.elapsed = @ + scan_interval,
                        !.slept = scan_interval]
    /\ phase' = "loop"
    /\ UNCHANGED <<loopRest, running, cycle, stats>>

(* An exception leaves the try of the iteration in progress.               *)
LoopRaise ==
    /\ phase \in InTry
    /\ ml' = [ml EXCEPT !.done = @ \cup {"raised"}, !.raised = @ + 1]
    /\ phase' = "except"
    /\ UNCHANGED <<loopRest, running, cycle, stats>>

(* main_loop, lines 475-478: the error is logged and counted, and          *)
(* send_error_notification is awaited.                                     *)
LoopCount ==
    /\ phase = "except"
    /\ stats' = [stats EXCEPT !.errors_count = @ + 1]
    /\ ml' = [ml EXCEPT !.reported = @ + 1]
    /\ phase' = "cooldown"
    /\ UNCHANGED <<loopRest, running, cycle>>

(* main_loop, line 479: the sleep after an error returns.                  *)
LoopCooldown ==
    /\ phase = "cooldown"
    /\ ml' = [ml EXCEPT !.done = @ \cup {"cooldown"},
                        !.elapsed = @ + error_sleep,
                        !.slept = error_sleep]
    /\ phase' = "loop"
    /\ UNCHANGED <<loopRest, running, cycle, stats>>

(* The loop condition fails; main_loop, line 482: stop_polling.            *)
LoopExit ==
    /\ ReadsFlag(phase)
    /\ phase \notin {"init", "cleanup", "stopped"}
    /\ ~LoopCondition(running)
    /\ ml' = [ml EXCEPT !.polling = FALSE]
    /\ phase' = "cleanup"
    /\ UNCHANGED <<loopRest, running, cycle, stats>>

(* main_loop, line 483: the message that the bot has stopped.              *)
LoopStopped ==
    /\ phase = "cleanup"
    /\ ml' = [ml EXCEPT !.stop_sent = TRUE]
    /\ phase' = "stopped"
    /\ UNCHANGED <<loopRest, running, cycle, stats>>

(* The polling thread runs _cmd_stop.                                      *)
LoopCmdStop ==
    /\ ml.polling
    /\ running
    /\ running' = FALSE
    /\ ml' = [ml EXCEPT !.stop_at = phase, !.stop_cycle = cycle,
                        !.stop_todo = ml.todo]
    /\ UNCHANGED <<loopRest, cycle, phase, stats>>

(* The steps main_loop takes by itself once the calls it waits for have    *)
(* returned.                                                               *)
LoopStep ==
    \/ LoopEnter
    \/ LoopScan
    \/ LoopBatch
    \/ LoopScanned
    \/ LoopHeartbeat
    \/ LoopSave
    \/ LoopSleep
    \/ LoopCount
    \/ LoopCooldown
    \/ LoopExit
    \/ LoopStopped

LoopNext ==
    \/ LoopStep
    \/ LoopRaise
    \/ LoopCmdStop

SpecLoop == LoopInit /\ [][LoopNext]_vars

(* Every outbound call of main_loop returns: a step that is possible is    *)
(* taken.                                                                  *)
SpecLoopLive == SpecLoop /\ WF_vars(LoopStep)

---------------------------------------------------------------------------
(* The aggregate DEX fetch on its own: get_latest_pairs_async and          *)
(* get_latest_pairs built from their search queries.  The rosters are      *)
(* scaled to three queries: two terms of ethereum and one of bsc for the   *)
(* concurrent variant; one term of ethereum, one of bsc and one trending   *)
(* term for the sequential one.                                            *)

MaxAnswer == 2

FetchPairs == {"0xA", "0xB", "0xC"}

(* The chain each query of the roster belongs to, in roster order.         *)
AsyncRoster == <<"ethereum", "ethereum", "bsc">>

SyncRoster == <<"ethereum", "bsc", "trending">>

(* A query fails in transport ("fail"), is answered with a status other    *)
(* than 200 ("status"), or returns the pairs of its answer.                *)
Failure(kind) == [kind |-> kind, pairs |-> <<>>]

Answer(pairs) == [kind |-> "ok", pairs |-> pairs]

Failed(outcome) == outcome.kind # "ok"

QueryOutcomes ==
    {Failure("fail"), Failure("status")}
        \cup {Answer(s) : s \in UNION {[1..n -> FetchPairs] : n \in 0..MaxAnswer}}

(* s[:n]                                                                   *)
Take(s, n) == IF Len(s) <= n THEN s ELSE SubSeq(s, 1, n)

(* [p for p in pairs if p.get('chainId', '').lower() == chain.lower()]     *)
chain_filter(pairs, chain) ==
    SelectSeq(pairs, LAMBDA p : PairData(p).chain = chain)

(* One pass of the loop over the terms of a chain: a failed query adds     *)
(* nothing (the except of the loop body, or the [] of search_pairs), an    *)
(* answered one its first five pairs of the chain.                         *)
term_pairs(outcome, chain) ==
    IF Failed(outcome) THEN <<>>
    ELSE Take(chain_filter(outcome.pairs, chain), 5)

RECURSIVE chain_terms(_, _, _, _)
chain_terms(chain, roster, outcomes, q) ==
    IF q > Len(roster) THEN <<>>
    ELSE (IF roster[q] = chain THEN term_pairs(outcomes[q], chain) ELSE <<>>)
            \o chain_terms(chain, roster, outcomes, q + 1)

fetch_chain_pairs_abort(chain, outcomes) ==
    IF \E q \in DOMAIN AsyncRoster :
          AsyncRoster[q] = chain /\ Failed(outcomes[q])
    THEN <<>>
    ELSE Take(chain_terms(chain, AsyncRoster, outcomes, 1), 25)

(* DexClient._fetch_chain_pairs_async                                      *)
fetch_chain_pairs_async(chain, outcomes) ==
    Take(chain_terms(chain, AsyncRoster, outcomes, 1), 25)

(* DexClient._get_chain_latest_pairs                                       *)
get_chain_latest_pairs(chain, outcomes) ==
    Take(chain_terms(chain, SyncRoster, outcomes, 1), 20)

(* The key _get_trending_pairs sorts by: liquidity plus 24 h volume.       *)
SortKey(p) == PairData(p).liquidity + PairData(p).volume_24h

(* sorted(search_results, key = ..., reverse = True): the sort is stable.  *)
RECURSIVE sorted_results(_)
sorted_results(s) ==
    IF s = <<>> THEN <<>>
    ELSE LET front == sorted_results(SubSeq(s, 1, Len(s) - 1))
             x == s[Len(s)]
             k == Cardinality({j \in DOMAIN front :
                                 SortKey(front[j]) >= SortKey(x)})
         IN SubSeq(front, 1, k) \o <<x>> \o SubSeq(front, k + 1, Len(front))

(* DexClient._get_trending_pairs: the three best pairs of each term that   *)
(* search_pairs finds anything for.                                        *)
RECURSIVE get_trending_pairs(_, _)
get_trending_pairs(outcomes, q) ==
    IF q > Len(SyncRoster) THEN <<>>
    ELSE (IF SyncRoster[q] = "trending" /\ ~Failed(outcomes[q])
          THEN Take(sorted_results(outcomes[q].pairs), 3)
          ELSE <<>>)
            \o get_trending_pairs(outcomes, q + 1)

(* get_latest_pairs_async, lines 174-186: the chains of the roster are     *)
(* fetched and their lists concatenated in roster order.                   *)
async_all_pairs(outcomes) ==
    fetch_chain_pairs_async("ethereum", outcomes)
        \o fetch_chain_pairs_async("bsc", outcomes)

(* get_latest_pairs, lines 82-94.                                          *)
sync_all_pairs(outcomes) ==
    get_chain_latest_pairs("ethereum", outcomes)
        \o get_chain_latest_pairs("bsc", outcomes)
        \o Take(get_trending_pairs(outcomes, 1), 50)

(* What the call hands to its caller.  The removal of duplicates raises on *)
(* a pairAddress that cannot be hashed; the except branch then returns []  *)
(* (concurrent variant) or what _get_trending_pairs finds when asked       *)
(* again, the queries answering as before (sequential variant).            *)
aggregate_fetch(variant, outcomes, malformed) ==
    IF variant = "async"
    THEN Returns(Take(get_latest_pairs_async(
                          [raises |-> malformed,
                           all_pairs |-> async_all_pairs(outcomes)]), 100))
    ELSE Returns(IF malformed
                 THEN get_latest_pairs(
                          [raises |-> TRUE, all_pairs |-> <<>>,
                           trending |-> Take(get_trending_pairs(outcomes, 1),
                                             50)])
                 ELSE Take(get_latest_pairs(
                               [raises |-> FALSE,
                                all_pairs |-> sync_all_pairs(outcomes),
                                trending |-> <<>>]), 100))

(* A call under test: the variant, what the three queries meet, and       *)
(* whether an answer carries an address that cannot be hashed.             *)
FetchCall(v, o, m) ==
    [IdleFetch EXCEPT !.status = "called", !.variant = v, !.outcomes = o,
                      !.malformed = m]

FetchInit ==
    /\ live = FALSE
    /\ vIn = IdleVerify
    /\ vOut = NoResult
    /\ poIn = IdlePlace
    /\ poOut = NoResult
    /\ ad = IdleAdapter
    /\ et = IdleTrade
    /\ ml = IdleLoop
    /\ \E v \in {"async", "sync"}, o \in [1..3 -> QueryOutcomes],
          m \in BOOLEAN :
          /\ m => \E q \in 1..3 : o[q].pairs # <<>>
          /\ fx = FetchCall(v, o, m)
    /\ st = IdleStore
    /\ tg = IdlePoll
    /\ BotIdle

(* scan_dex_pairs calls the fetch and the fetch returns.                   *)
FetchReturn ==
    /\ fx.status = "called"
    /\ LET out == aggregate_fetch(fx.variant, fx.outcomes, fx.malformed)
       IN fx' = [fx EXCEPT !.status = "returned", !.raised = out.raised,
                           !.result = out.value]
    /\ UNCHANGED <<live, vIn, vOut, poIn, poOut, ad, et, ml, st, tg, botVars>>

FetchNext == FetchReturn

SpecFetch == FetchInit /\ [][FetchNext]_vars

---------------------------------------------------------------------------
(* trades.json and the processes around it: the bot, which loads the file  *)
(* at startup and rewrites it after each trade; the dashboard, which reads *)
(* it on request; and the end of the bot process at any moment.            *)

MaxTrades == 3

MaxStarts == 2

(* json.load of the file as it is: the list when the document is complete, *)
(* no document when the file is missing, and an exception when the file is *)
(* empty or ends in the middle of the document.                            *)
ReadFile(disk, file) ==
    CASE disk = "complete" -> [kind |-> "list", data |-> file]
      [] disk = "missing" -> [kind |-> "missing", data |-> <<>>]
      [] OTHER -> [kind |-> "unparsable", data |-> <<>>]

(* utils.load_from_json(...) or []: None for a missing file and for one    *)
(* that cannot be parsed.                                                  *)
load_from_json(disk, file) ==
    IF ReadFile(disk, file).kind = "list" THEN file ELSE <<>>

IsPrefix(s, t) == Len(s) <= Len(t) /\ SubSeq(t, 1, Len(s)) = s

storeRest == <<live, vIn, vOut, poIn, poOut, ad, et, ml, fx, tg, running,
               cycle, phase, tasks, batchLo, cur, stats, orders, signalLog>>

StoreInit ==
    /\ live = FALSE
    /\ vIn = IdleVerify
    /\ vOut = NoResult
    /\ poIn = IdlePlace
    /\ poOut = NoResult
    /\ ad = IdleAdapter
    /\ et = IdleTrade
    /\ UnitsIdle
    /\ BotIdle

(* TradingBot.__init__, line 38.                                           *)
StoreStart ==
    /\ st.proc = "down"
    /\ st.starts < MaxStarts
    /\ trades' = load_from_json(st.disk, tradesFile)
    /\ st' = [st EXCEPT !.proc = "up", !.starts = @ + 1,
                        !.boot = ReadFile(st.disk, tradesFile)]
    /\ UNCHANGED <<storeRest, tradesFile>>

(* execute_trade, lines 153-154: the record is appended and save_to_json   *)
(* is called.                                                              *)
StoreTrade ==
    /\ st.proc = "up"
    /\ st.w = "none"
    /\ st.made < MaxTrades
    /\ trades' = Append(trades, st.made + 1)
    /\ st' = [st EXCEPT !.made = @ + 1, !.w = "open"]
    /\ UNCHANGED <<storeRest, tradesFile>>

(* save_to_json, line 63: open(filename, 'w') creates the file or cuts it  *)
(* to length zero.                                                         *)
StoreOpen ==
    /\ st.proc = "up"
    /\ st.w = "open"
    /\ tradesFile' = <<>>
    /\ st' = [st EXCEPT !.w = "dump", !.disk = "truncated"]
    /\ UNCHANGED <<storeRest, trades>>

(* save_to_json, line 64: json.dump writes the document piece by piece;    *)
(* some of the records are in the file, the end of the document is not.    *)
StoreDump ==
    /\ st.proc = "up"
    /\ st.w = "dump"
    /\ \E k \in 0..(Len(trades) - 1) :
          tradesFile' = SubSeq(trades, 1, k)
    /\ st' = [st EXCEPT !.w = "close", !.disk = "partial"]
    /\ UNCHANGED <<storeRest, trades>>

(* save_to_json, lines 64-65: the rest of the document is written and the  *)
(* file is closed.                                                         *)
StoreClose ==
    /\ st.proc = "up"
    /\ st.w = "close"
    /\ tradesFile' = trades
    /\ st' = [st EXCEPT !.w = "none", !.disk = "complete",
                        !.ever = IF IsPrefix(@, trades) THEN trades ELSE @]
    /\ UNCHANGED <<storeRest, trades>>

(* save_to_json, lines 66-67: open or a write raises (no space, no         *)
(* permission); the error is logged and the file stays as it is.           *)
StoreWriteFails ==
    /\ st.proc = "up"
    /\ st.w \in {"open", "dump", "close"}
    /\ st' = [st EXCEPT !.w = "none"]
    /\ UNCHANGED <<storeRest, trades, tradesFile>>

(* The process ends (it is killed, the host goes down): its memory is      *)
(* gone, the file stays as it is.                                          *)
StoreCrash ==
    /\ st.proc = "up"
    /\ trades' = <<>>
    /\ st' = [st EXCEPT !.proc = "down", !.w = "none"]
    /\ UNCHANGED <<storeRest, tradesFile>>

(* web_dashboard.get_trades: [] without a file, else json.load of it; an   *)
(* exception of json.load becomes an HTTP 500.                             *)
StoreRead ==
    /\ st.starts > 0
    /\ st' = [st EXCEPT !.read = ReadFile(st.disk, tradesFile)]
    /\ UNCHANGED <<storeRest, trades, tradesFile>>

StoreNext ==
    \/ StoreStart
    \/ StoreTrade
    \/ StoreOpen
    \/ StoreDump
    \/ StoreClose
    \/ StoreWriteFails
    \/ StoreCrash
    \/ StoreRead

SpecStore == StoreInit /\ [][StoreNext]_vars

---------------------------------------------------------------------------
(* The polling thread of TelegramAdmin: get_updates and process_updates    *)
(* against the update queue of Telegram, which answers getUpdates with the *)
(* updates whose id is at least the offset, in the order of their ids, and *)
(* forgets the updates below it.                                           *)

next_offset_after_handler(offset, update_id, raises) ==
    IF raises THEN offset ELSE update_id + 1

(* process_updates, line 179: the offset is set first in the processing of *)
(* an update, whatever the handler does afterwards.                        *)
next_offset(offset, update_id, raises) == update_id + 1

(* The answer of getUpdates to an offset.                                  *)
RECURSIVE updates_from(_, _)
updates_from(ids, offset) ==
    LET pending == {u \in ids : u >= offset}
    IN IF pending = {} THEN <<>>
       ELSE LET first == CHOOSE u \in pending : \A v \in pending : u <= v
            IN <<first>> \o updates_from(pending \ {first}, offset)

pollRest == <<live, vIn, vOut, poIn, poOut, ad, et, ml, fx, st, botVars>>

PollInit ==
    /\ live = FALSE
    /\ vIn = IdleVerify
    /\ vOut = NoResult
    /\ poIn = IdlePlace
    /\ poOut = NoResult
    /\ ad = IdleAdapter
    /\ et = IdleTrade
    /\ UnitsIdle
    /\ BotIdle

(* A user sends a command or presses a button.                             *)
PollArrive ==
    /\ tg.next <= MaxUpdates
    /\ tg' = [tg EXCEPT !.server = @ \cup {tg.next}, !.next = @ + 1]
    /\ UNCHANGED pollRest

(* process_updates, line 175: get_updates returns the result of getUpdates *)
(* for the offset, or [] when the request fails.                           *)
PollGet ==
    /\ tg.batch = <<>>
    /\ \E answered \in BOOLEAN :
          tg' = IF answered
                THEN [tg EXCEPT !.batch = updates_from(tg.server, tg.offset),
                                !.server = {u \in @ : u >= tg.offset},
                                !.polled_after = tg.handled]
                ELSE tg
    /\ UNCHANGED pollRest

(* process_updates, lines 177-205: one pass of the loop over the updates.  *)
(* The update has a registered handler or not, and its processing raises   *)
(* or not; the except of the loop body logs the exception.                 *)
PollProcess ==
    /\ tg.batch # <<>>
    /\ \E registered \in BOOLEAN, raises \in BOOLEAN :
          LET update_id == Head(tg.batch)
          IN tg' = [tg EXCEPT
                      !.offset = next_offset(@, update_id, raises),
                      !.batch = Tail(@),
                      !.dispatched[update_id] = IF registered THEN @ + 1 ELSE @,
                      !.handled = @ \cup {update_id},
                      !.raised = IF raises THEN @ \cup {update_id} ELSE @]
    /\ UNCHANGED pollRest

PollNext ==
    \/ PollArrive
    \/ PollGet
    \/ PollProcess

SpecPoll == PollInit /\ [][PollNext]_vars

---------------------------------------------------------------------------
(* The admission policy stated check by check, each check on its own, for  *)
(* comparison with what verify_signal returns.                             *)

CexNumber(xt_data) == IF xt_data.tag = "num" THEN xt_data.val ELSE 0

WellFormed(in) == in.xt.tag # "bad"

QuotePresent(in) == Truthy(in.xt)

PricesNonZero(in) == CexNumber(in.xt) # 0 /\ in.dex.price_usd # 0

SpreadComputed(in) == QuotePresent(in) /\ WellFormed(in) /\ PricesNonZero(in)

Divergence(in) == Abs(in.dex.price_usd - CexNumber(in.xt)) * 100

SpreadBelowMin(in) == Divergence(in) < min_spread * Abs(CexNumber(in.xt))

SpreadAboveMax(in) == Divergence(in) > max_spread * Abs(CexNumber(in.xt))

CheckFails(in, k) ==
    CASE k = 1 -> ~QuotePresent(in)
      [] k = 2 -> ~PricesNonZero(in)
      [] k = 3 -> SpreadBelowMin(in)
      [] k = 4 -> SpreadAboveMax(in)
      [] k = 5 -> in.dex.liquidity < min_liquidity
      [] k = 6 -> in.dex.volume_24h < min_volume

FirstFailing(in) ==
    IF \E k \in 1..6 : CheckFails(in, k)
    THEN CHOOSE k \in 1..6 :
            CheckFails(in, k) /\ \A j \in 1..(k - 1) : ~CheckFails(in, j)
    ELSE 0

ReasonOf(k) ==
    CASE k = 0 -> R_AllMet
      [] k = 1 -> R_NotListed
      [] k = 2 -> R_InvalidPrice
      [] k = 3 -> R_TooLow
      [] k = 4 -> R_TooHigh
      [] k = 5 -> R_Liquidity
      [] k = 6 -> R_Volume

ActionOf(k, allow) ==
    CASE k = 0 -> IF allow THEN "execute" ELSE "notify"
      [] k = 4 -> "notify"
      [] OTHER -> "skip"

AllChecksPass(in) == WellFormed(in) /\ FirstFailing(in) = 0

---------------------------------------------------------------------------
(* The verify_signal input of a coroutine that has verified its pair.      *)
TaskInput(t) == [dex |-> PairData(tasks[t].pair), xt |-> tasks[t].ticker]

Verified(t) ==
    tasks[t].pc \in {"verified", "await_signal", "et_begin", "et_place",
                     "et_post", "await_trade"}

(* C1: of the pairs of one scan cycle that resolve to the same CEX symbol  *)
(* and are admitted with action = execute, at most one leads to an order   *)
(* submission and at most one TradeRecord is appended in the cycle.        *)
C1_AtMostOncePerSymbol ==
    \A sym \in {UsdtSymbol(PairData(a).symbol) : a \in PairAddresses} :
        /\ Cardinality({k \in DOMAIN orders :
                          /\ orders[k].symbol = sym
                          /\ orders[k].origin.valid
                          /\ orders[k].origin.action = "execute"}) <= 1
        /\ Cardinality({k \in DOMAIN trades :
                          /\ trades[k].symbol = sym
                          /\ trades[k].timestamp = cycle}) <= 1

(* C5: a pair whose spread is above the maximum is verified as action =    *)
(* notify with valid = false, also with the switch on; its coroutine never *)
(* enters execute_trade and no order stems from it.                        *)
C5_AboveMaxNotifyOnly ==
    /\ \A t \in DOMAIN tasks :
          (Verified(t) /\ SpreadComputed(TaskInput(t))
                       /\ SpreadAboveMax(TaskInput(t))) =>
             /\ tasks[t].ver.action = "notify"
             /\ ~tasks[t].ver.valid
             /\ tasks[t].pc \in {"verified", "await_signal"}
    /\ \A k \in DOMAIN orders : orders[k].origin.reason # R_TooHigh
    /\ \A k \in DOMAIN signalLog :
          signalLog[k].reason = R_TooHigh =>
             (signalLog[k].action = "notify" /\ ~signalLog[k].valid)

C5_Witness ==
    /\ live
    /\ orders = <<>>
    /\ \E k \in DOMAIN signalLog, t \in DOMAIN tasks :
          /\ signalLog[k].reason = R_TooHigh
          /\ tasks[t].pair = signalLog[k].pair
          /\ tasks[t].pc = "done"
          /\ tasks[t].ret

(* C6: a pair whose spread is below the minimum is verified as action =    *)
(* skip with valid = false; its coroutine returns without a signal         *)
(* notification and no order stems from it.                                *)
C6_BelowMinSkipped ==
    /\ \A t \in DOMAIN tasks :
          (Verified(t) /\ SpreadComputed(TaskInput(t))
                       /\ SpreadBelowMin(TaskInput(t))) =>
             /\ tasks[t].ver.action = "skip"
             /\ ~tasks[t].ver.valid
             /\ tasks[t].pc = "verified"
    /\ \A k \in DOMAIN signalLog : signalLog[k].reason # R_TooLow
    /\ \A k \in DOMAIN orders : orders[k].origin.reason # R_TooLow

C6_Witness ==
    \E t \in DOMAIN tasks :
        /\ tasks[t].pc = "verified"
        /\ tasks[t].allow
        /\ SpreadComputed(TaskInput(t))
        /\ SpreadBelowMin(TaskInput(t))
        /\ tasks[t].ver.reasons = <<R_TooLow>>

(* C2: place_order called while the live-trading switch is off returns     *)
(* None and sends no request to the exchange, whatever the symbol, side,   *)
(* type, quantity, price and whatever the exchange would have answered.    *)
C2_PlaceOrderNoOpWhenOff ==
    (poOut.called /\ ~poOut.allow) =>
        /\ poOut.res.ack = NoAck
        /\ ~poOut.res.sent

C2_Witness ==
    /\ poOut.called
    /\ ~poOut.allow
    /\ poIn.response = "ok"
    /\ poIn.order_type = "LIMIT"
    /\ poIn.price # 0

(* C3: a verify_signal call made while the switch is off never returns     *)
(* action = execute; an input passing every check yields valid = true and  *)
(* action = notify.                                                        *)
C3_NoExecuteWhenOff ==
    (vOut.called /\ ~vOut.allow) =>
        /\ vOut.res.action # "execute"
        /\ AllChecksPass(vIn) => (vOut.res.valid /\ vOut.res.action = "notify")

C3_Witness ==
    /\ vOut.called
    /\ ~vOut.allow
    /\ AllChecksPass(vIn)
    /\ vOut.res.valid
    /\ vOut.res.action = "notify"

(* C4: a result with action = execute has valid = true and was produced    *)
(* with the switch on.                                                     *)
C4_ExecuteImpliesValidAndLive ==
    (vOut.called /\ vOut.res.action = "execute") =>
        (vOut.res.valid /\ vOut.allow)

C4_Witness ==
    /\ vOut.called
    /\ vOut.res.action = "execute"
    /\ vOut.res.valid
    /\ vOut.allow

(* C7 as stated: liquidity or volume below its threshold gives action =    *)
(* skip whatever the spread.                                               *)
C7_Original ==
    (vOut.called /\ (vIn.dex.liquidity < min_liquidity
                     \/ vIn.dex.volume_24h < min_volume)) =>
        vOut.res.action = "skip"

(* C7 amended: liquidity or volume below its threshold gives valid = false *)
(* and never execute; the action is skip, except that a computed spread    *)
(* above the maximum gives notify, the spread checks coming first.         *)
C7_LowLiquidityOrVolume ==
    (vOut.called /\ (vIn.dex.liquidity < min_liquidity
                     \/ vIn.dex.volume_24h < min_volume)) =>
        /\ ~vOut.res.valid
        /\ vOut.res.action # "execute"
        /\ vOut.res.action = "notify" <=>
              (SpreadComputed(vIn) /\ SpreadAboveMax(vIn))
        /\ vOut.res.action = "skip" <=>
              ~(SpreadComputed(vIn) /\ SpreadAboveMax(vIn))

C7_Witness ==
    /\ vOut.called
    /\ vOut.allow
    /\ vIn.dex.liquidity < min_liquidity
    /\ SpreadComputed(vIn)
    /\ SpreadAboveMax(vIn)
    /\ vOut.res.action = "notify"

(* C8: valid = true exactly when the quote is present, neither price is    *)
(* zero, minSpread <= spread <= maxSpread, liquidity and volume reach      *)
(* their minimum; the checks run in the order quote, prices, spread-low,   *)
(* spread-high, liquidity, volume and the first failing one decides the    *)
(* action and the reason.                                                  *)
C8_ValidIffAllChecks ==
    vOut.called =>
        /\ vOut.res.valid <=>
              /\ SpreadComputed(vIn)
              /\ ~SpreadBelowMin(vIn)
              /\ ~SpreadAboveMax(vIn)
              /\ vIn.dex.liquidity >= min_liquidity
              /\ vIn.dex.volume_24h >= min_volume
        /\ WellFormed(vIn) =>
              /\ vOut.res.valid = (FirstFailing(vIn) = 0)
              /\ vOut.res.action = ActionOf(FirstFailing(vIn), vOut.allow)
              /\ vOut.res.reasons # <<>>
              /\ vOut.res.reasons[1] = ReasonOf(FirstFailing(vIn))

C8_Witness ==
    /\ vOut.called
    /\ vOut.res.valid
    /\ RatEq(vOut.res.spread, Rat(min_spread))
    /\ vIn.dex.liquidity = min_liquidity
    /\ vIn.dex.volume_24h = min_volume

C11_NonPositivePriceSkipped ==
    (/\ vOut.called
     /\ QuotePresent(vIn)
     /\ WellFormed(vIn)
     /\ (vIn.dex.price_usd <= 0 \/ CexNumber(vIn.xt) <= 0)) =>
        /\ vOut.res.action = "skip"
        /\ ~vOut.res.valid
        /\ vOut.res.reasons = <<R_InvalidPrice>>

(* C12: in one scan cycle no pair address is processed twice, whichever    *)
(* way scan_dex_pairs obtained its pairs.                                  *)
C12_NoPairTwice ==
    \A i, j \in DOMAIN tasks :
        i # j => tasks[i].pair # tasks[j].pair

(* C15: the order ids of the TradeRecords are pairwise different (0 is     *)
(* the 'N/A' written when the ack carries no orderId).                     *)
C15_UniqueOrderIds ==
    \A i, j \in DOMAIN trades :
        i # j => trades[i].order_id # trades[j].order_id

(* C18: an order is submitted for a pair only if the verification of that  *)
(* pair in this cycle returned valid = true and action = execute; a       *)
(* notify or skip result never brings its coroutine into execute_trade,    *)
(* also when the switch is on after the verification.                      *)
C18_OrderOnlyOnExecute ==
    /\ \A k \in DOMAIN orders :
          orders[k].origin.valid /\ orders[k].origin.action = "execute"
    /\ \A t \in DOMAIN tasks :
          tasks[t].pc \in {"et_begin", "et_place", "et_post", "await_trade"} =>
             (tasks[t].ver.valid /\ tasks[t].ver.action = "execute")

C18_Witness ==
    /\ live
    /\ \E k \in DOMAIN signalLog, t \in DOMAIN tasks :
          /\ signalLog[k].valid
          /\ signalLog[k].action = "notify"
          /\ tasks[t].pair = signalLog[k].pair
          /\ tasks[t].pc = "done"
          /\ tasks[t].ret
          /\ \A j \in DOMAIN orders : orders[j].origin.pair # tasks[t].pair
    /\ \E t \in DOMAIN tasks : tasks[t].pc = "et_begin"

(* C19: an order reaches the exchange, and a TradeRecord is appended, only *)
(* in a step taken with the live-trading switch on.                        *)
C19_NoOrderWhileSwitchedOff ==
    [][(Len(orders') > Len(orders) \/ Len(trades') > Len(trades)) => live]_vars

(* C20: execute_trade goes on to place_order only with the order book it   *)
(* fetched; with the order book absent no order is submitted, no           *)
(* TradeRecord is appended, trades_executed stays and no trade             *)
(* notification is awaited.                                                *)
C20_NoOrderbookNoTrade ==
    /\ \A t \in DOMAIN tasks :
          tasks[t].pc \in {"et_place", "et_post", "await_trade"} =>
             tasks[t].book = "present"
    /\ \A k \in DOMAIN orders : orders[k].book = "present"
    /\ stats.trades_executed = Len(trades)
    /\ Cardinality({k \in DOMAIN trades : trades[k].timestamp = cycle})
          = Cardinality({k \in DOMAIN orders : orders[k].recorded})

C20_Witness ==
    /\ live
    /\ orders = <<>>
    /\ trades = <<>>
    /\ stats.trades_executed = 0
    /\ \E t \in DOMAIN tasks :
          /\ tasks[t].pc = "done"
          /\ tasks[t].ret
          /\ tasks[t].book = "absent"

(* The methods that fetch, and the absent result of each.                  *)
FetchMethods == AdapterMethods \ {"place_order"}

Absent(method) ==
    IF method \in {"get_symbols", "search_pairs"} THEN ListV(<<>>) ELSE NoneV

AdapterDone == ad.status \in {"returned", "raised"}

(* The number of requests that fail before one is answered.                *)
LeadingFailures(upstream) ==
    Cardinality({k \in DOMAIN upstream :
                    \A j \in 1..k : Transport(upstream[j])})

(* C13: a fetch whose request fails in transport is re-attempted: the      *)
(* request is issued again, up to max_retries times in all, with a wait of *)
(* delay * attempt before the attempt that follows, and the failure is     *)
(* reported only after the last attempt has failed.                        *)
C13_TransientFailureRetried ==
    (AdapterDone /\ ad.method \in FetchMethods /\ Transport(ad.upstream[1])) =>
        /\ ad.requests = IF LeadingFailures(ad.upstream) < max_retries
                         THEN LeadingFailures(ad.upstream) + 1
                         ELSE max_retries
        /\ Len(ad.sleeps) = ad.requests - 1
        /\ \A k \in DOMAIN ad.sleeps :
              ad.sleeps[k] = retry_delay(ad.method) * k

(* C14: when every request of a fetch fails, on each of the max_retries    *)
(* attempts the wrapper allows, the call returns the absent result of the  *)
(* method (None, or the empty list); it does not raise.                    *)
C14_AbsentWhenAllAttemptsFail ==
    (/\ AdapterDone
     /\ ad.method \in FetchMethods
     /\ \A i \in 1..max_retries : Transport(ad.upstream[i])) =>
        /\ ad.status = "returned"
        /\ ad.value = Absent(ad.method)

C14_Witness ==
    /\ ad.status = "returned"
    /\ ad.method = "get_orderbook"
    /\ \A i \in 1..max_retries : ad.upstream[i] = Timeout
    /\ ad.value = NoneV

(* C16: get_ticker returns a dict result as it is, the first element of a  *)
(* non-empty list, and None for an empty list, a result of another type,   *)
(* a non-zero result code or a transport failure; it never raises.  A      *)
(* body without result reads as the empty dict.                            *)
C16_TickerNormalised ==
    (ad.method = "get_ticker" /\ AdapterDone) =>
        /\ ad.status = "returned"
        /\ LET r == ad.upstream[1]
           IN ad.value =
                 CASE r.http # "ok" \/ r.rc # 0 -> NoneV
                   [] r.http = "ok" /\ r.rc = 0 /\ r.shape = "dict" ->
                         DictV(r.items)
                   [] r.http = "ok" /\ r.rc = 0 /\ r.shape = "missing" ->
                         DictV(<<>>)
                   [] r.http = "ok" /\ r.rc = 0 /\ r.shape = "list"
                         /\ r.items # <<>> -> DictV(<<Head(r.items)>>)
                   [] OTHER -> NoneV

C16_Witness ==
    /\ ad.status = "returned"
    /\ ad.method = "get_ticker"
    /\ ad.upstream[1] = Body(0, "list", <<"q2", "q1">>)
    /\ ad.value = DictV(<<"q2">>)

(* C17: a body with a non-zero result code is a failure although the HTTP  *)
(* status is 200: get_ticker, get_orderbook, get_balance and place_order   *)
(* return None, get_symbols returns the empty catalog, and the None of     *)
(* place_order is an ack execute_trade makes no TradeRecord from.          *)
C17_NonZeroRcIsFailure ==
    (/\ AdapterDone
     /\ ad.method \in XtMethods
     /\ ad.upstream[1].http = "ok"
     /\ ad.upstream[1].rc # 0) =>
        /\ ad.status = "returned"
        /\ ad.method \in {"get_ticker", "get_orderbook", "get_balance"} =>
              ad.value = NoneV
        /\ ad.method = "get_symbols" => ad.value = ListV(<<>>)
        /\ ad.method = "place_order" =>
              /\ ad.value = NoAck
              /\ ~AckTruthy(ad.value)
              /\ ~Accepted(PlaceResponse(ad.upstream[1]))

C17_Witness ==
    /\ ad.status = "returned"
    /\ ad.method = "place_order"
    /\ ad.allow
    /\ ad.requests = 1
    /\ ad.upstream[1] = Body(1, "dict", <<"q1">>)
    /\ ad.value = NoAck

(* C21: the order execute_trade submits is a BUY exactly when the DEX      *)
(* price of the pair is strictly below the CEX price of the quote, a SELL  *)
(* otherwise, and the trade record made of the ack carries the side that   *)
(* was submitted.                                                          *)
C21_SideFollowsPrices ==
    [][\A t \in DOMAIN tasks :
          (cur = t /\ tasks[t].pc = "et_post"
              /\ Len(orders') = Len(orders) + 1) =>
             LET sent == orders'[Len(orders')]
                 dex == PairData(tasks[t].pair).price_usd
                 cex == tasks[t].ticker.val
             IN /\ sent.side \in {"BUY", "SELL"}
                /\ (sent.side = "BUY") <=> (dex < cex)
                /\ (Len(trades') = Len(trades) + 1) =>
                      trades'[Len(trades')].side = sent.side]_vars

C21_Witness ==
    \E i, j \in DOMAIN orders :
        /\ orders[i].side = "BUY" /\ orders[i].recorded
        /\ orders[j].side = "SELL" /\ orders[j].recorded
        /\ \E k \in DOMAIN trades : trades[k].side = "BUY"
        /\ \E k \in DOMAIN trades : trades[k].side = "SELL"

(* C23: an order the exchange accepts (result code 0) is recorded: when    *)
(* execute_trade goes on after the answer, a TradeRecord has been appended *)
(* or trades_executed has been incremented.                                *)
C23_AcceptedOrderRecorded ==
    [][\A t \in DOMAIN tasks, response \in BotResponses :
          (ET_PostWith(t, response) /\ Accepted(response)) =>
             \/ Len(trades') = Len(trades) + 1
             \/ stats'.trades_executed = stats.trades_executed + 1]_vars

(* C26: order submission and the write of the trade list go one trade at   *)
(* a time: at most one execute_trade is between its call of place_order    *)
(* and the end of its write of trades.json, also when several pairs of a   *)
(* batch are admitted and in flight together.                              *)
C26_OneTradeAtATime ==
    \A t, u \in DOMAIN tasks :
        (/\ tasks[t].pc \in {"et_place", "et_post"}
         /\ tasks[u].pc \in {"et_place", "et_post"}) => t = u

C26_Witness ==
    /\ phase = "batch"
    /\ \E t, u \in batchLo..BatchHi :
          /\ t # u
          /\ tasks[t].pc = "et_post"
          /\ tasks[u].pc \in {"await_signal", "await_trade"}

(* C29: while a scan verifies in batches, at most batch_size coroutines    *)
(* are in flight: the candidates are cut into consecutive slices of at     *)
(* most batch_size, each candidate in one slice, and a slice is started    *)
(* only when every coroutine of the slice before it has finished.          *)
C29_BoundedBatches ==
    phase = "batch" =>
        /\ batchLo % batch_size = 1 % batch_size
        /\ batchLo <= Len(tasks)
        /\ BatchHi - batchLo + 1 <= batch_size
        /\ \A t \in DOMAIN tasks :
              /\ t < batchLo => tasks[t].pc = "done"
              /\ t > BatchHi => tasks[t].pc = "new"
        /\ \A t \in DOMAIN tasks :
              tasks[t].pc \notin {"new", "done"} =>
                 (batchLo <= t /\ t < batchLo + batch_size)

C29_Witness ==
    /\ phase = "batch"
    /\ Len(tasks) > batch_size
    /\ batchLo = batch_size + 1
    /\ tasks[batchLo].pc \notin {"new", "done"}
    /\ \A t \in 1..batch_size : tasks[t].pc = "done"

(* In flight: a coroutine that has started and not returned.               *)
InFlight(task) == task.pc \notin {"new", "done"}

(* C30: the watchlist is scanned only when the scan obtained no pair from  *)
(* the concurrent fetch and none from the synchronous one; its pairs are   *)
(* then processed one after the other, each whatever became of the one     *)
(* before, and no batch is verified in that cycle.                         *)
C30_WatchlistOnlyOnTotalFailure ==
    [][/\ (phase' = "watch" /\ phase # "watch") =>
              (phase = "fetched" /\ tasks = <<>>)
       /\ (phase = "watch") => (phase' \in {"watch", "loop"})
       /\ (phase = "batch") => (phase' \in {"batch", "loop"})
       /\ (phase' = "watch") =>
              /\ Len(tasks') <= watchlist_size
              /\ \A t \in DOMAIN tasks' :
                    /\ t < batchLo' => tasks'[t].pc = "done"
                    /\ t > batchLo' => tasks'[t].pc = "new"
       /\ (phase = "watch" /\ phase' = "watch" /\ batchLo' # batchLo) =>
              /\ batchLo' = batchLo + 1
              /\ tasks[batchLo].pc = "done"]_vars

C30_Witness ==
    /\ phase = "watch"
    /\ Len(tasks) = watchlist_size
    /\ batchLo = 2
    /\ tasks[1].pc = "done"
    /\ ~tasks[1].ret
    /\ InFlight(tasks[2])

(* C27: in a cycle every admitted result is notified exactly once: a task  *)
(* that has passed its notification has an entry in the signal log, and no *)
(* pair has two.                                                           *)
C27_OneSignalPerPair ==
    /\ \A i, j \in DOMAIN signalLog :
          i # j => signalLog[i].pair # signalLog[j].pair
    /\ \A t \in DOMAIN tasks :
          tasks[t].pc \in {"et_begin", "et_place", "et_post", "await_trade"} =>
             \E i \in DOMAIN signalLog : signalLog[i].pair = tasks[t].pair

(* The pair of task t has a token address and a symbol, and the catalog    *)
(* makes the symbol lookup raise.                                          *)
PairRaises(t, symbols) ==
    /\ PairData(tasks[t].pair).token # ""
    /\ PairData(tasks[t].pair).symbol # ""
    /\ find_symbol_raises(PairData(tasks[t].pair).token, symbols)

(* C28: an exception raised while a pair is processed is caught and        *)
(* counted: errors_count goes up by one, the scan stays in its batch and   *)
(* the coroutines of the other pairs are left as they are.                 *)
C28_PairExceptionCounted ==
    [][\A t \in DOMAIN tasks, symbols \in Catalogs, xt_ticker \in BotTickers :
          (PD_StartWith(t, symbols, xt_ticker) /\ PairRaises(t, symbols)) =>
             /\ stats'.errors_count = stats.errors_count + 1
             /\ phase' = phase
             /\ \A u \in DOMAIN tasks \ {t} : tasks'[u] = tasks[u]]_vars

(* The invocation under test has appended a record.                        *)
TradeRecorded == Len(trades) = et.before + 1

C25_NotifiedOnlyWhenPersisted ==
    (\/ et.status = "returned"
     \/ \E k \in DOMAIN et.events : et.events[k] = "trade_notification") =>
        tradesFile = trades

---------------------------------------------------------------------------
(* main_loop: errors, stop and heartbeat.                                  *)

(* C31: an exception that leaves the try of an iteration is counted        *)
(* (errors_count + 1) and reported by one error notification; the sleep    *)
(* before the next evaluation of the loop condition is the one of the      *)
(* except branch, longer than scan_interval; the loop is left only with    *)
(* the running flag cleared, and with the flag set the next scan can       *)
(* start.                                                                  *)
C31_ExceptionCountedAndCooledDown ==
    /\ stats.errors_count = ml.raised - (IF phase = "except" THEN 1 ELSE 0)
    /\ ml.reported = stats.errors_count
    /\ (phase = "loop" /\ "raised" \in ml.done) =>
          /\ "cooldown" \in ml.done
          /\ ml.slept = error_sleep
          /\ ml.slept > scan_interval
          /\ (running /\ cycle < MaxIterations) => ENABLED LoopScan
    /\ phase \in {"cleanup", "stopped"} => ~running

C31_Witness ==
    /\ phase = "scan"
    /\ running
    /\ cycle = 2
    /\ ml.raised = 1
    /\ stats.errors_count = 1
    /\ ml.reported = 1
    /\ ml.slept = error_sleep

(* The iteration in progress when /stop was processed has run to its end.  *)
IterationCompleted ==
    \/ {"scan", "save", "sleep"} \subseteq ml.done /\ ml.todo = 0
    \/ {"raised", "cooldown"} \subseteq ml.done

(* C32: a /stop processed while an iteration is in progress takes effect   *)
(* at the next evaluation of the loop condition: when main_loop has left   *)
(* the loop, the batches that were outstanding have been gathered, the     *)
(* rest of the iteration (heartbeat test, snapshot, sleep) has run, and no *)
(* further iteration has started.                                          *)
C32_StopAtIterationBoundary ==
    /\ (phase \in {"cleanup", "stopped"}
          /\ ml.stop_at \in InTry \cup {"except", "cooldown"}) =>
             /\ ml.stop_cycle = cycle
             /\ IterationCompleted
    /\ (ml.stop_at \in InTry /\ ml.stop_cycle = cycle
          /\ ~IterationCompleted) => phase \in InTry \cup {"except", "cooldown"}

C32_Witness ==
    /\ phase = "stopped"
    /\ ml.stop_at = "scan"
    /\ ml.stop_todo = MaxBatches
    /\ ml.stop_cycle = cycle
    /\ ml.todo = 0
    /\ {"scan", "save", "sleep"} \subseteq ml.done

(* The terminal state of main_loop.                                        *)
Stopped == phase = "stopped" /\ ~ml.polling /\ ml.stop_sent

(* C33: once /stop has been processed, main_loop reaches Stopped, every    *)
(* call it waits for returning; from Stopped on no iteration starts and no *)
(* batch runs.                                                             *)
C33_StopLeadsToStopped ==
    /\ (ml.stop_at # "none") ~> Stopped
    /\ [][Stopped => (Stopped' /\ cycle' = cycle /\ ml'.todo = ml.todo
                        /\ ml'.done = ml.done)]_vars

C33_Witness ==
    /\ Stopped
    /\ ml.stop_at = "heartbeat"
    /\ cycle = 1

(* C34: a heartbeat that is due (the interval has elapsed since the last   *)
(* one) is emitted before the scan in progress goes on: no batch is        *)
(* gathered while the heartbeat is due.                                    *)
C34_HeartbeatIndependentOfScan ==
    [][(phase = "scan" /\ HeartbeatDue(ml.elapsed)) => ml'.todo >= ml.todo]_vars

---------------------------------------------------------------------------
(* The candidate symbol and the counters.                                  *)

(* The symbol process_dex_pair can arrive at for a pair: the catalog       *)
(* symbol that contains the token address, and without one the upper-case  *)
(* token symbol followed by _USDT.                                         *)
CandidateSymbols(pair) ==
    {IF find_symbol_by_address(pair.token, symbols) # NoSymbol
     THEN find_symbol_by_address(pair.token, symbols)
     ELSE UsdtSymbol(pair.symbol) :
        symbols \in {c \in Catalogs : ~find_symbol_raises(pair.token, c)}}

CandidateTable == [a \in PairAddresses |-> CandidateSymbols(PairData(a))]

(* C35: the symbol a pair is processed under is the address match of the   *)
(* catalog or else UPPER(symbol)_USDT, and it counts only with a ticker:   *)
(* a coroutine gets past the ticker test only with a ticker, and no signal *)
(* notification and no order stems from a pair without one.                *)
C35_CandidateNeedsTicker ==
    /\ \A t \in DOMAIN tasks :
          InFlight(tasks[t]) =>
             /\ Truthy(tasks[t].ticker)
             /\ tasks[t].xt_symbol \in CandidateTable[tasks[t].pair]
    /\ \A k \in DOMAIN signalLog : signalLog[k].reason # R_NotListed
    /\ \A k \in DOMAIN orders : orders[k].origin.reason # R_NotListed

(* Pair 0xA is notified under every ticker of BotTickers; here it was      *)
(* counted and dropped, which is the return of line 71.                    *)
C35_Witness ==
    /\ Scanning
    /\ Len(tasks) >= 1
    /\ tasks[1].pair = "0xA"
    /\ tasks[1].pc = "done"
    /\ ~tasks[1].ret
    /\ batchLo = 1
    /\ stats.signals_processed = 1
    /\ stats.signals_valid = 0
    /\ signalLog = <<>>
    /\ orders = <<>>

(* trades_executed <= signals_valid <= signals_processed                   *)
CountersOrdered(counters) ==
    /\ counters.trades_executed <= counters.signals_valid
    /\ counters.signals_valid <= counters.signals_processed

(* C39: no step lowers signals_processed, signals_valid, trades_executed   *)
(* or errors_count, and trades_executed <= signals_valid <=                *)
(* signals_processed before and after every step.                          *)
C39_CountersMonotonic ==
    [][/\ stats'.signals_processed >= stats.signals_processed
       /\ stats'.signals_valid >= stats.signals_valid
       /\ stats'.trades_executed >= stats.trades_executed
       /\ stats'.errors_count >= stats.errors_count
       /\ CountersOrdered(stats)
       /\ CountersOrdered(stats')]_vars

C39_Witness ==
    /\ stats.signals_processed = 3
    /\ stats.signals_valid = 2
    /\ stats.trades_executed = 1

---------------------------------------------------------------------------
(* The aggregate fetch.                                                    *)

Range(s) == {s[i] : i \in DOMAIN s}

NoDuplicates(s) == \A i, j \in DOMAIN s : i # j => s[i] # s[j]

FetchRoster(variant) == IF variant = "async" THEN AsyncRoster ELSE SyncRoster

(* The pairs the answered queries found for the chain they asked about     *)
(* (a trending query asks about no chain).                                 *)
SucceededPairs(f) ==
    {p \in FetchPairs :
        \E q \in DOMAIN f.outcomes :
            /\ ~Failed(f.outcomes[q])
            /\ p \in Range(f.outcomes[q].pairs)
            /\ FetchRoster(f.variant)[q] \in {"trending", PairData(p).chain}}

---------------------------------------------------------------------------
(* trades.json.                                                            *)

(* C37: the trade list is rewritten atomically: the dashboard reading the  *)
(* file and a start of the bot loading it always obtain a complete list    *)
(* (or find no file), never an empty or unfinished document.               *)
C37_AtomicRewrite ==
    /\ st.read.kind # "unparsable"
    /\ st.boot.kind # "unparsable"

(* C38: the trade log is append-only across restarts: whenever the file    *)
(* has been rewritten completely, the records of every list written before *)
(* are in it, in their order.                                              *)
C38_AppendOnlyAcrossRestarts ==
    st.disk = "complete" => IsPrefix(st.ever, tradesFile)

---------------------------------------------------------------------------
(* The update cursor.                                                      *)

(* C40: the offset is past every update that has been processed, whether   *)
(* its handler raised or not, so no poll returns it again: an update is    *)
(* dispatched to its handler at most once, and the updates of a batch are  *)
(* all ahead of the offset or at it.                                       *)
C40_CursorPreventsRedelivery ==
    /\ \A u \in 1..MaxUpdates : tg.dispatched[u] <= 1
    /\ \A u \in tg.handled : u < tg.offset
    /\ \A k \in DOMAIN tg.batch : tg.batch[k] \notin tg.handled
    /\ \A k \in DOMAIN tg.batch : k > 1 => tg.batch[k - 1] < tg.batch[k]

(* An update whose handler raised, and a poll answered afterwards with the *)
(* update that followed it.                                                *)
C40_Witness ==
    /\ 1 \in tg.raised
    /\ 1 \in tg.polled_after
    /\ tg.dispatched[1] = 1
    /\ tg.batch = <<2>>
    /\ tg.offset = 2

====
